---- MODULE Spec2Model ----
(***************************************************************************)
(* A model of the jackd beanstalkd client (src/src/index.ts): the receive  *)
(* buffer and frame assembler (processChunk), the dispatcher               *)
(* (flushExecutions), the command methods built by createCommandHandler,   *)
(* and the socket they run on.                                             *)
(*                                                                         *)
(* A byte is a string: the character itself for an ASCII byte, "xHH" for    *)
(* another one. A byte sequence (Uint8Array) is a sequence of bytes, and a *)
(* JavaScript string is a sequence of characters.                          *)
(***************************************************************************)
EXTENDS Integers, Sequences, FiniteSets, TLC

\* ---------------------------------------------------------------- bounds

\* commands submitted on one client in one behaviour
MaxCmds == 3
\* length of a job payload the server may send
MaxPayload == 2
\* length of a payload given to put in the round-trip specification
MaxPutPayload == 3
\* command calls of one session
MaxSession == 3
\* the largest number given as a job id, a bound, a priority, a delay or a ttr
MaxArg == 1
\* times one status line is classified
MaxClassify == 2
\* calls of quit, close or disconnect on one client
MaxQuit == 3

\* ------------------------------------------------------- program constants

CR == "\r"
LF == "\n"
SP == " "
DELIMITER == <<CR, LF>>

RESERVED == <<"R","E","S","E","R","V","E","D">>
INSERTED == <<"I","N","S","E","R","T","E","D">>
DELETED == <<"D","E","L","E","T","E","D">>
BURIED == <<"B","U","R","I","E","D">>
NOT_FOUND == <<"N","O","T","_","F","O","U","N","D">>
OUT_OF_MEMORY == <<"O","U","T","_","O","F","_","M","E","M","O","R","Y">>
INTERNAL_ERROR == <<"I","N","T","E","R","N","A","L","_","E","R","R","O","R">>
BAD_FORMAT == <<"B","A","D","_","F","O","R","M","A","T">>
UNKNOWN_COMMAND == <<"U","N","K","N","O","W","N","_","C","O","M","M","A","N","D">>
EXPECTED_CRLF == <<"E","X","P","E","C","T","E","D","_","C","R","L","F">>
JOB_TOO_BIG == <<"J","O","B","_","T","O","O","_","B","I","G">>
DRAINING == <<"D","R","A","I","N","I","N","G">>
TIMED_OUT == <<"T","I","M","E","D","_","O","U","T">>
DEADLINE_SOON == <<"D","E","A","D","L","I","N","E","_","S","O","O","N">>
USING == <<"U","S","I","N","G">>
TOUCHED == <<"T","O","U","C","H","E","D">>
RELEASED == <<"R","E","L","E","A","S","E","D">>
FOUND == <<"F","O","U","N","D">>
WATCHING == <<"W","A","T","C","H","I","N","G">>
NOT_IGNORED == <<"N","O","T","_","I","G","N","O","R","E","D">>
KICKED == <<"K","I","C","K","E","D">>
PAUSED == <<"P","A","U","S","E","D">>
OK == <<"O","K">>

\* ------------------------------------------------------- string functions

\* String.prototype.startsWith
StartsWith(s, p) ==
  /\ Len(p) <= Len(s)
  /\ SubSeq(s, 1, Len(p)) = p

\* Uint8Array.prototype.slice(from, to), 0-based, to exclusive
Slice(s, from, to) == SubSeq(s, from + 1, to)

\* findIndex(array, subarray): the 0-based index of the first occurrence,
\* -1 when there is none
findIndex(array, subarray) ==
  LET hits == { i \in 0..(Len(array) - Len(subarray)) :
                  Slice(array, i, i + Len(subarray)) = subarray }
  IN  IF hits = {} THEN -1
      ELSE CHOOSE i \in hits : \A j \in hits : i <= j

\* String.prototype.split(" ")
RECURSIVE split(_)
split(s) ==
  LET i == findIndex(s, <<SP>>)
  IN  IF i = -1 THEN <<s>>
      ELSE <<Slice(s, 0, i)>> \o split(Slice(s, i + 1, Len(s)))

Digits == <<"0","1","2","3","4","5","6","7","8","9">>
IsDigit(c) == \E d \in 1..10 : Digits[d] = c
DigitVal(c) == (CHOOSE d \in 1..10 : Digits[d] = c) - 1

\* the value JavaScript's NaN is modelled by: like NaN it is not > 0
NaN == -1

\* the longest prefix of s made of decimal digits
RECURSIVE DigitPrefix(_)
DigitPrefix(s) ==
  IF s = <<>> \/ ~IsDigit(Head(s)) THEN <<>>
  ELSE <<Head(s)>> \o DigitPrefix(Tail(s))

RECURSIVE DigitsValue(_)
DigitsValue(ds) ==
  IF ds = <<>> THEN 0
  ELSE 10 * DigitsValue(SubSeq(ds, 1, Len(ds) - 1)) + DigitVal(ds[Len(ds)])

\* the destructured elements of split(" "): parts[i+1], undefined when absent
Undefined == <<"undefined">>
Part(parts, i) == IF i + 1 <= Len(parts) THEN parts[i + 1] ELSE Undefined

\* parseInt(x) of a string of the model's alphabet, or of undefined
parseInt(x) ==
  IF x = Undefined \/ DigitPrefix(x) = <<>> THEN NaN
  ELSE DigitsValue(DigitPrefix(x))

\* the decimal digits a template literal `${n}` writes for n >= 0
RECURSIVE NumberToString(_)
NumberToString(n) ==
  IF n < 10 THEN <<Digits[n + 1]>>
  ELSE NumberToString(n \div 10) \o <<Digits[(n % 10) + 1]>>

\* ------------------------------------------------------------- the state

VARIABLES
  connected,    \* JackdClient.connected
  buffer,       \* JackdClient.buffer: received bytes not yet cut into frames
  chunkLength,  \* JackdClient.chunkLength: declared length of the awaited payload
  messages,     \* JackdClient.messages: frames not yet passed to a handler
  executions,   \* JackdClient.executions: the queue of pending commands
  reserveId,    \* the `id` variable shared by the two steps of a reserve or peek
  socket,       \* the socket's life cycle: "new", "open", "closed"
  writes,       \* calls suspended at `await this.write(...)`, oldest first
  sent,         \* commands the server has received and not yet answered
  wire,         \* bytes the server has sent and the socket has not yet delivered
  calls         \* one record per command call, in submission order

vars == <<connected, buffer, chunkLength, messages, executions, reserveId,
          socket, writes, sent, wire, calls>>

\* ------------------------------------------------------------- encoding

\* the bytes a payload is made of
PayloadBytes == {"a", CR, LF}

\* the character code of a byte, as JSON.stringify prints it
CharCode(b) == CASE b = CR -> 13 [] b = LF -> 10 [] b = "a" -> 97

\* a character outside ASCII, and the character a decoder puts in the place
\* of bytes that are not UTF-8
EAcute == "U+00E9"
Replacement == "U+FFFD"

\* the UTF-8 bytes of a character: one byte for ASCII, two for U+00E9
Utf8(c) == IF c = EAcute THEN <<"xC3", "xA9">> ELSE <<c>>

\* new TextEncoder().encode(str)
RECURSIVE TextEncode(_)
TextEncode(str) ==
  IF str = <<>> THEN <<>> ELSE Utf8(Head(str)) \o TextEncode(Tail(str))

\* new TextDecoder().decode(bytes)
RECURSIVE TextDecode(_)
TextDecode(bytes) ==
  IF bytes = <<>> THEN <<>>
  ELSE IF Len(bytes) >= 2 /\ bytes[1] = "xC3" /\ bytes[2] = "xA9"
  THEN <<EAcute>> \o TextDecode(SubSeq(bytes, 3, Len(bytes)))
  ELSE IF bytes[1] \in {"xC3", "xA9"}
  THEN <<Replacement>> \o TextDecode(Tail(bytes))
  ELSE <<bytes[1]>> \o TextDecode(Tail(bytes))

\* JSON.stringify of a Uint8Array: an object keyed by index, {"0":13,"1":10}
RECURSIVE JSONEntries(_, _)
JSONEntries(bytes, i) ==
  IF i > Len(bytes) THEN <<>>
  ELSE (IF i > 1 THEN <<",">> ELSE <<>>)
         \o <<"\"">> \o NumberToString(i - 1) \o <<"\"", ":">>
         \o NumberToString(CharCode(bytes[i])) \o JSONEntries(bytes, i + 1)

JSONStringify(bytes) == <<"{">> \o JSONEntries(bytes, 1) \o <<"}">>

\* JSON.stringify of a plain object whose values are strings without quotes or
\* backslashes: {"foo":"bar"}
RECURSIVE JSONMembers(_, _)
JSONMembers(entries, i) ==
  IF i > Len(entries) THEN <<>>
  ELSE (IF i > 1 THEN <<",">> ELSE <<>>)
         \o <<"\"">> \o entries[i].key \o <<"\"", ":", "\"">>
         \o entries[i].value \o <<"\"">> \o JSONMembers(entries, i + 1)

\* the string a template literal makes of an object
ObjectToString(entries) == <<"[","o","b","j","e","c","t",SP,"O","b","j","e","c","t","]">>

JSONStringifyObject(entries) == <<"{">> \o JSONMembers(entries, 1) \o <<"}">>

\* the values of the model: the arguments of a command method and the values
\* it resolves with. An argument the caller left out is undefined.
Num(n) == [type |-> "number", n |-> n]
Void == [type |-> "undefined"]
Str(data) == [type |-> "string", data |-> data]

\* the truth value assert(x) and `x || d` go by
Truthy(v) ==
  CASE v.type = "undefined" -> FALSE
    [] v.type = "number"    -> v.n # 0
    [] v.type = "string"    -> v.data # <<>>
    [] OTHER                -> TRUE

\* `x || d` for an option that may be missing
OrDefault(opts, name, d) ==
  IF name \in DOMAIN opts /\ opts[name] # 0 THEN opts[name] ELSE d

\* a template literal's `${v}`
Interpolate(v) ==
  CASE v.type = "undefined" -> <<"u","n","d","e","f","i","n","e","d">>
    [] v.type = "number"    -> NumberToString(v.n)
    [] v.type = "string"    -> v.data

\* what a command string function comes to: the bytes, or the error of a
\* failed assert
Encoded(bytes) == [threw |-> FALSE, err |-> [type |-> "none"], bytes |-> bytes]
AssertionError == [threw |-> TRUE, err |-> [type |-> "AssertionError"], bytes |-> <<>>]

\* an options object the caller left out
NoOpts == [x \in {} |-> 0]

\* a put that counts the characters of a string payload
putCommandCharCount(payload, opts) ==
  IF ~Truthy(payload) THEN AssertionError
  ELSE
    LET body == CASE payload.type = "bytes" ->
                       TextEncode(JSONStringify(payload.data))
                  [] payload.type = "object" ->
                       TextEncode(JSONStringifyObject(payload.entries))
                  [] OTHER -> TextEncode(payload.data)
        length == IF payload.type = "string" THEN Len(payload.data) ELSE Len(body)
        command == TextEncode(<<"p","u","t",SP>>
                     \o NumberToString(OrDefault(opts, "priority", 0)) \o <<SP>>
                     \o NumberToString(OrDefault(opts, "delay", 0)) \o <<SP>>
                     \o NumberToString(OrDefault(opts, "ttr", 60)) \o <<SP>>
                     \o NumberToString(length) \o DELIMITER)
    IN  Encoded(command \o body \o DELIMITER)

\* the command string function of put. A payload is a string, a Uint8Array or
\* a plain object; assert(payload) fails for undefined and the empty string.
\* A Uint8Array and a plain object are both typeof "object".
putCommand(payload, opts) ==
  IF ~Truthy(payload) THEN AssertionError
  ELSE
    LET body == CASE payload.type = "bytes" ->
                       TextEncode(JSONStringify(payload.data))
                  [] payload.type = "object" ->
                       TextEncode(JSONStringifyObject(payload.entries))
                  [] OTHER -> TextEncode(payload.data)
        command == TextEncode(<<"p","u","t",SP>>
                     \o NumberToString(OrDefault(opts, "priority", 0)) \o <<SP>>
                     \o NumberToString(OrDefault(opts, "delay", 0)) \o <<SP>>
                     \o NumberToString(OrDefault(opts, "ttr", 60)) \o <<SP>>
                     \o NumberToString(Len(body)) \o DELIMITER)
    IN  Encoded(command \o body \o DELIMITER)

\* the command string functions with one argument: assert(x) where the code
\* has it, then the template literal
useCommand(tube) ==
  IF ~Truthy(tube) THEN AssertionError
  ELSE Encoded(TextEncode(<<"u","s","e",SP>> \o Interpolate(tube) \o DELIMITER))

reserveWithTimeoutCommand(seconds) ==
  Encoded(TextEncode(<<"r","e","s","e","r","v","e","-","w","i","t","h","-","t","i","m","e","o","u","t",SP>> \o Interpolate(seconds) \o DELIMITER))

reserveJobCommand(id) ==
  Encoded(TextEncode(<<"r","e","s","e","r","v","e","-","j","o","b",SP>> \o Interpolate(id) \o DELIMITER))

deleteCommand(id) ==
  IF ~Truthy(id) THEN AssertionError
  ELSE Encoded(TextEncode(<<"d","e","l","e","t","e",SP>> \o Interpolate(id) \o DELIMITER))

touchCommand(id) ==
  IF ~Truthy(id) THEN AssertionError
  ELSE Encoded(TextEncode(<<"t","o","u","c","h",SP>> \o Interpolate(id) \o DELIMITER))

watchCommand(tube) ==
  IF ~Truthy(tube) THEN AssertionError
  ELSE Encoded(TextEncode(<<"w","a","t","c","h",SP>> \o Interpolate(tube) \o DELIMITER))

ignoreCommand(tube) ==
  IF ~Truthy(tube) THEN AssertionError
  ELSE Encoded(TextEncode(<<"i","g","n","o","r","e",SP>> \o Interpolate(tube) \o DELIMITER))

peekCommand(id) ==
  IF ~Truthy(id) THEN AssertionError
  ELSE Encoded(TextEncode(<<"p","e","e","k",SP>> \o Interpolate(id) \o DELIMITER))

kickCommand(bound) ==
  IF ~Truthy(bound) THEN AssertionError
  ELSE Encoded(TextEncode(<<"k","i","c","k",SP>> \o Interpolate(bound) \o DELIMITER))

kickJobCommand(id) ==
  IF ~Truthy(id) THEN AssertionError
  ELSE Encoded(TextEncode(<<"k","i","c","k","-","j","o","b",SP>> \o Interpolate(id) \o DELIMITER))

statsJobCommand(id) ==
  IF ~Truthy(id) THEN AssertionError
  ELSE Encoded(TextEncode(<<"s","t","a","t","s","-","j","o","b",SP>> \o Interpolate(id) \o DELIMITER))

statsTubeCommand(tube) ==
  IF ~Truthy(tube) THEN AssertionError
  ELSE Encoded(TextEncode(<<"s","t","a","t","s","-","t","u","b","e",SP>> \o Interpolate(tube) \o DELIMITER))

\* release(id, { priority, delay } = {})
releaseCommand(id, opts) ==
  IF ~Truthy(id) THEN AssertionError
  ELSE Encoded(TextEncode(<<"r","e","l","e","a","s","e",SP>> \o Interpolate(id) \o <<SP>>
                 \o NumberToString(OrDefault(opts, "priority", 0)) \o <<SP>>
                 \o NumberToString(OrDefault(opts, "delay", 0)) \o DELIMITER))

\* bury(id, priority)
buryCommand(id, priority) ==
  IF ~Truthy(id) THEN AssertionError
  ELSE Encoded(TextEncode(<<"b","u","r","y",SP>> \o Interpolate(id) \o <<SP>>
                 \o (IF Truthy(priority) THEN Interpolate(priority) ELSE <<"0">>)
                 \o DELIMITER))

\* pauseTube(tube, { delay } = {}): no assert, and no delimiter at the end
pauseTubeCommand(tube, opts) ==
  Encoded(TextEncode(<<"p","a","u","s","e","-","t","u","b","e",SP>> \o Interpolate(tube) \o <<SP>>
            \o NumberToString(OrDefault(opts, "delay", 0))))

\* the command string functions without arguments
reserveCommand == Encoded(TextEncode(<<"r","e","s","e","r","v","e">> \o DELIMITER))
peekReadyCommand == Encoded(TextEncode(<<"p","e","e","k","-","r","e","a","d","y">> \o DELIMITER))
peekDelayedCommand == Encoded(TextEncode(<<"p","e","e","k","-","d","e","l","a","y","e","d">> \o DELIMITER))
peekBuriedCommand == Encoded(TextEncode(<<"p","e","e","k","-","b","u","r","i","e","d">> \o DELIMITER))
statsCommand == Encoded(TextEncode(<<"s","t","a","t","s">> \o DELIMITER))
listTubesCommand == Encoded(TextEncode(<<"l","i","s","t","-","t","u","b","e","s">> \o DELIMITER))
listTubesWatchedCommand == Encoded(TextEncode(<<"l","i","s","t","-","t","u","b","e","s","-","w","a","t","c","h","e","d">> \o DELIMITER))
listTubeUsedCommand == Encoded(TextEncode(<<"l","i","s","t","-","t","u","b","e","-","u","s","e","d">> \o DELIMITER))

\* ------------------------------------------------------- response handling

\* a validate that compares the whole line with the tokens
validateExact(buf, additionalResponses) ==
  LET ascii == TextDecode(buf)
      errors == <<OUT_OF_MEMORY, INTERNAL_ERROR, BAD_FORMAT, UNKNOWN_COMMAND>>
                  \o additionalResponses
  IN  IF \E i \in 1..Len(errors) : ascii = errors[i]
      THEN [threw |-> TRUE, err |-> [type |-> "Error", message |-> ascii]]
      ELSE [threw |-> FALSE, ascii |-> ascii]

\* validate(buffer, additionalResponses): a thrown Error carries the decoded
\* line
validate(buf, additionalResponses) ==
  LET ascii == TextDecode(buf)
      errors == <<OUT_OF_MEMORY, INTERNAL_ERROR, BAD_FORMAT, UNKNOWN_COMMAND>>
                  \o additionalResponses
  IN  IF \E i \in 1..Len(errors) : StartsWith(ascii, errors[i])
      THEN [threw |-> TRUE, err |-> [type |-> "Error", message |-> ascii]]
      ELSE [threw |-> FALSE, ascii |-> ascii]

\* an invalidResponse that throws a plain Error
invalidResponsePlainError(ascii) ==
  [threw |-> TRUE, err |-> [type |-> "Error", message |-> ascii]]

\* invalidResponse(ascii): always throws
invalidResponse(ascii) ==
  [threw |-> TRUE, err |-> [type |-> "InvalidResponseError", response |-> ascii]]

\* a job, as the reserve and peek commands resolve with it
Job(id, payload) == [type |-> "job", id |-> id, payload |-> payload]

\* what a handler step hands back: a value, or a thrown error, and the values
\* of the two variables a step may assign
Returns(v, cl, id) == [threw |-> FALSE, value |-> v, chunkLength |-> cl, id |-> id]
Throws(e, cl, id) == [threw |-> TRUE, err |-> e, chunkLength |-> cl, id |-> id]

\* the handler step of put
putHandler(buf, cl, id) ==
  LET v == validate(buf, <<BURIED, EXPECTED_CRLF, JOB_TOO_BIG, DRAINING>>)
  IN  IF v.threw THEN Throws(v.err, cl, id)
      ELSE IF StartsWith(v.ascii, INSERTED)
      THEN Returns(Num(parseInt(Part(split(v.ascii), 1))), cl, id)
      ELSE Throws(invalidResponse(v.ascii).err, cl, id)

\* the handler step of delete
deleteHandler(buf, cl, id) ==
  LET v == validate(buf, <<NOT_FOUND>>)
  IN  IF v.threw THEN Throws(v.err, cl, id)
      ELSE IF v.ascii = DELETED THEN Returns(Void, cl, id)
      ELSE Throws(invalidResponse(v.ascii).err, cl, id)

\* a status step that sets id and leaves chunkLength as it is
reserveStatusStepKeepsCounter(additionalResponses, buf, cl, id) ==
  LET v == validate(buf, <<DEADLINE_SOON, TIMED_OUT>> \o additionalResponses)
  IN  IF v.threw THEN Throws(v.err, cl, id)
      ELSE IF StartsWith(v.ascii, RESERVED)
      THEN Returns(Void, cl, parseInt(Part(split(v.ascii), 1)))
      ELSE Throws(invalidResponse(v.ascii).err, cl, id)

\* createReserveHandlers(additionalResponses)[0]: the status line sets id and
\* chunkLength
reserveStatusStep(additionalResponses, buf, cl, id) ==
  LET v == validate(buf, <<DEADLINE_SOON, TIMED_OUT>> \o additionalResponses)
  IN  IF v.threw THEN Throws(v.err, cl, id)
      ELSE IF StartsWith(v.ascii, RESERVED)
      THEN LET parts == split(v.ascii)
           IN  Returns(Void, parseInt(Part(parts, 2)), parseInt(Part(parts, 1)))
      ELSE Throws(invalidResponse(v.ascii).err, cl, id)

\* the status step of reserve, reserveRaw and reserveWithTimeout
reserveStatusHandler(buf, cl, id) == reserveStatusStep(<<>>, buf, cl, id)

\* the status step of reserveJob
reserveJobStatusHandler(buf, cl, id) == reserveStatusStep(<<NOT_FOUND>>, buf, cl, id)

\* createReserveHandlers(_, true)[1]: the payload frame, decoded and returned
\* with the shared id
reservePayloadHandler(payload, cl, id) ==
  Returns(Job(id, TextDecode(payload)), cl, id)

\* createReserveHandlers(_, false)[1]: the payload frame as it is
reserveRawPayloadHandler(payload, cl, id) ==
  Returns(Job(id, payload), cl, id)

\* a string taken from split(" "), undefined when the part is absent
StrPart(parts, i) == IF Part(parts, i) = Undefined THEN Void ELSE Str(Part(parts, i))

\* the handler step of use
useHandler(buf, cl, id) ==
  LET v == validate(buf, <<>>)
  IN  IF v.threw THEN Throws(v.err, cl, id)
      ELSE IF StartsWith(v.ascii, USING)
      THEN Returns(StrPart(split(v.ascii), 1), cl, id)
      ELSE Throws(invalidResponse(v.ascii).err, cl, id)

\* the handler step of release
releaseHandler(buf, cl, id) ==
  LET v == validate(buf, <<BURIED, NOT_FOUND>>)
  IN  IF v.threw THEN Throws(v.err, cl, id)
      ELSE IF v.ascii = RELEASED THEN Returns(Void, cl, id)
      ELSE Throws(invalidResponse(v.ascii).err, cl, id)

\* a bury step that classifies BURIED as release does
buryHandlerListsBuried(buf, cl, id) ==
  LET v == validate(buf, <<BURIED, NOT_FOUND>>)
  IN  IF v.threw THEN Throws(v.err, cl, id)
      ELSE IF v.ascii = BURIED THEN Returns(Void, cl, id)
      ELSE Throws(invalidResponse(v.ascii).err, cl, id)

\* the handler step of bury
buryHandler(buf, cl, id) ==
  LET v == validate(buf, <<NOT_FOUND>>)
  IN  IF v.threw THEN Throws(v.err, cl, id)
      ELSE IF v.ascii = BURIED THEN Returns(Void, cl, id)
      ELSE Throws(invalidResponse(v.ascii).err, cl, id)

\* the handler step of touch
touchHandler(buf, cl, id) ==
  LET v == validate(buf, <<NOT_FOUND>>)
  IN  IF v.threw THEN Throws(v.err, cl, id)
      ELSE IF v.ascii = TOUCHED THEN Returns(Void, cl, id)
      ELSE Throws(invalidResponse(v.ascii).err, cl, id)

\* the handler step of watch
watchHandler(buf, cl, id) ==
  LET v == validate(buf, <<>>)
  IN  IF v.threw THEN Throws(v.err, cl, id)
      ELSE IF StartsWith(v.ascii, WATCHING)
      THEN Returns(Num(parseInt(Part(split(v.ascii), 1))), cl, id)
      ELSE Throws(invalidResponse(v.ascii).err, cl, id)

\* the handler step of ignore
ignoreHandler(buf, cl, id) ==
  LET v == validate(buf, <<NOT_IGNORED>>)
  IN  IF v.threw THEN Throws(v.err, cl, id)
      ELSE IF StartsWith(v.ascii, WATCHING)
      THEN Returns(Num(parseInt(Part(split(v.ascii), 1))), cl, id)
      ELSE Throws(invalidResponse(v.ascii).err, cl, id)

\* the handler step of pauseTube
pauseTubeHandler(buf, cl, id) ==
  LET v == validate(buf, <<NOT_FOUND>>)
  IN  IF v.threw THEN Throws(v.err, cl, id)
      ELSE IF v.ascii = PAUSED THEN Returns(Void, cl, id)
      ELSE Throws(invalidResponse(v.ascii).err, cl, id)

\* createPeekHandlers()[0]: the status line sets id and chunkLength
peekStatusHandler(buf, cl, id) ==
  LET v == validate(buf, <<NOT_FOUND>>)
  IN  IF v.threw THEN Throws(v.err, cl, id)
      ELSE IF StartsWith(v.ascii, FOUND)
      THEN LET parts == split(v.ascii)
           IN  Returns(Void, parseInt(Part(parts, 2)), parseInt(Part(parts, 1)))
      ELSE Throws(invalidResponse(v.ascii).err, cl, id)

\* createPeekHandlers()[1]
peekPayloadHandler(payload, cl, id) ==
  Returns(Job(id, TextDecode(payload)), cl, id)

\* the handler step of kick
kickHandler(buf, cl, id) ==
  LET v == validate(buf, <<>>)
  IN  IF v.threw THEN Throws(v.err, cl, id)
      ELSE IF StartsWith(v.ascii, KICKED)
      THEN Returns(Num(parseInt(Part(split(v.ascii), 1))), cl, id)
      ELSE Throws(invalidResponse(v.ascii).err, cl, id)

\* the handler step of kickJob
kickJobHandler(buf, cl, id) ==
  LET v == validate(buf, <<NOT_FOUND>>)
  IN  IF v.threw THEN Throws(v.err, cl, id)
      ELSE IF StartsWith(v.ascii, KICKED) THEN Returns(Void, cl, id)
      ELSE Throws(invalidResponse(v.ascii).err, cl, id)

\* the status step of the commands answered with OK <bytes> and a YAML
\* document: the line sets chunkLength
okStatusStep(additionalResponses, buf, cl, id) ==
  LET v == validate(buf, additionalResponses)
  IN  IF v.threw THEN Throws(v.err, cl, id)
      ELSE IF StartsWith(v.ascii, OK)
      THEN Returns(Void, parseInt(Part(split(v.ascii), 1)), id)
      ELSE Throws(invalidResponse(v.ascii).err, cl, id)

\* the status step of statsJob, stats, listTubes and listTubesWatched
statsJobStatusHandler(buf, cl, id) ==
  okStatusStep(<<DEADLINE_SOON, TIMED_OUT>>, buf, cl, id)

\* the status step of statsTube
statsTubeStatusHandler(buf, cl, id) ==
  okStatusStep(<<NOT_FOUND, DEADLINE_SOON, TIMED_OUT>>, buf, cl, id)

\* the payload step of the YAML commands: the document is decoded and parsed;
\* the parsed value is carried as its text
yamlPayloadHandler(payload, cl, id) ==
  Returns([type |-> "yaml", text |-> TextDecode(payload)], cl, id)

\* the handler step of listTubeUsed
listTubeUsedHandler(buf, cl, id) ==
  LET v == validate(buf, <<NOT_FOUND>>)
  IN  IF v.threw THEN Throws(v.err, cl, id)
      ELSE IF StartsWith(v.ascii, USING)
      THEN Returns(StrPart(split(v.ascii), 1), cl, id)
      ELSE Throws(invalidResponse(v.ascii).err, cl, id)

\* The receiving side of a put command, as beanstalkd reads it: the command
\* line `put <pri> <delay> <ttr> <bytes>` declares the length of the body that
\* follows, and the body is taken as it comes.
putLineReader(buf, cl, id) ==
  Returns(Void, parseInt(Part(split(buf), 4)), id)

putBodyReader(body, cl, id) ==
  Returns([type |-> "bytes", data |-> body], cl, id)

\* the handler lists given to createCommandHandler
Kinds == {"put", "reserve", "delete"}
HandlersOf(kind) ==
  CASE kind = "put"     -> <<"put">>
    [] kind = "delete"  -> <<"delete">>
    [] kind = "reserve" -> <<"reserveStatus", "reservePayload">>
    [] kind = "putReader" -> <<"putLine", "putBody">>
    [] kind = "use"       -> <<"use">>
    [] kind = "reserveRaw" -> <<"reserveStatus", "reserveRawPayload">>
    [] kind = "reserveWithTimeout" -> <<"reserveStatus", "reservePayload">>
    [] kind = "reserveJob" -> <<"reserveJobStatus", "reservePayload">>
    [] kind = "release"   -> <<"release">>
    [] kind = "bury"      -> <<"bury">>
    [] kind = "touch"     -> <<"touch">>
    [] kind = "watch"     -> <<"watch">>
    [] kind = "ignore"    -> <<"ignore">>
    [] kind = "pauseTube" -> <<"pauseTube">>
    [] kind \in {"peek", "peekReady", "peekDelayed", "peekBuried"} ->
         <<"peekStatus", "peekPayload">>
    [] kind = "kick"      -> <<"kick">>
    [] kind = "kickJob"   -> <<"kickJob">>
    [] kind \in {"statsJob", "stats", "listTubes", "listTubesWatched"} ->
         <<"statsJobStatus", "yamlPayload">>
    [] kind = "statsTube" -> <<"statsTubeStatus", "yamlPayload">>
    [] kind = "listTubeUsed" -> <<"listTubeUsed">>

\* handler!(this.messages.shift()!)
Invoke(h, msg, cl, id) ==
  CASE h = "put"            -> putHandler(msg, cl, id)
    [] h = "delete"         -> deleteHandler(msg, cl, id)
    [] h = "reserveStatus"  -> reserveStatusHandler(msg, cl, id)
    [] h = "reservePayload" -> reservePayloadHandler(msg, cl, id)
    [] h = "putLine"        -> putLineReader(msg, cl, id)
    [] h = "putBody"        -> putBodyReader(msg, cl, id)
    [] h = "use"            -> useHandler(msg, cl, id)
    [] h = "reserveRawPayload" -> reserveRawPayloadHandler(msg, cl, id)
    [] h = "reserveJobStatus"  -> reserveJobStatusHandler(msg, cl, id)
    [] h = "release"        -> releaseHandler(msg, cl, id)
    [] h = "bury"           -> buryHandler(msg, cl, id)
    [] h = "touch"          -> touchHandler(msg, cl, id)
    [] h = "watch"          -> watchHandler(msg, cl, id)
    [] h = "ignore"         -> ignoreHandler(msg, cl, id)
    [] h = "pauseTube"      -> pauseTubeHandler(msg, cl, id)
    [] h = "peekStatus"     -> peekStatusHandler(msg, cl, id)
    [] h = "peekPayload"    -> peekPayloadHandler(msg, cl, id)
    [] h = "kick"           -> kickHandler(msg, cl, id)
    [] h = "kickJob"        -> kickJobHandler(msg, cl, id)
    [] h = "statsJobStatus" -> statsJobStatusHandler(msg, cl, id)
    [] h = "statsTubeStatus" -> statsTubeStatusHandler(msg, cl, id)
    [] h = "yamlPayload"    -> yamlPayloadHandler(msg, cl, id)
    [] h = "listTubeUsed"   -> listTubeUsedHandler(msg, cl, id)

\* ------------------------------------------------------------ dispatching

\* emitter.emit("resolve" | "reject", v) on the emitter of call k: the promise
\* settles on the first emit. emits counts the emits of call k, and order is
\* the position of its first emit among the calls' first emits.
Emit(cs, k, event, v) ==
  [cs EXCEPT ![k] = [@ EXCEPT
     !.emits = @ + 1,
     !.order = IF cs[k].emits = 0
               THEN Cardinality({j \in 1..Len(cs) : cs[j].emits > 0}) + 1
               ELSE @,
     !.outcome = IF cs[k].outcome = "pending" THEN event ELSE @,
     !.value = IF cs[k].outcome = "pending" THEN v ELSE @]]

\* a catch branch that emits "reject" and leaves the execution in the queue
onThrowKeepsExecution(st, cmd, err) ==
  [st EXCEPT !.calls = Emit(@, cmd, "reject", err)]

\* the catch branch: emit "reject" and shift the botched execution
onThrow(st, cmd, err) ==
  [st EXCEPT !.calls = Emit(@, cmd, "reject", err),
             !.executions = Tail(@)]

\* a last step that emits "resolve" and leaves the execution in the queue
onLastStepKeepsExecution(st, cmd, value) ==
  [st EXCEPT !.calls = Emit(@, cmd, "resolve", value)]

\* the last handler step returned: emit "resolve" and shift the execution
onLastStep(st, cmd, value) ==
  [st EXCEPT !.calls = Emit(@, cmd, "resolve", value),
             !.executions = Tail(@)]

\* the try block of flushExecutions for executions[0]: the while loop over
\* its handler steps, and the catch branch
RECURSIVE RunHead(_)
RunHead(st) ==
  LET e == Head(st.executions)
  IN  IF e.handlers = <<>> \/ st.messages = <<>>
      THEN [st |-> st, removed |-> FALSE]
      ELSE
        LET h   == Head(e.handlers)
            msg == Head(st.messages)
            r   == Invoke(h, msg, st.chunkLength, st.reserveId)
            rest == Tail(e.handlers)
            st1 == [st EXCEPT
                      !.messages = Tail(st.messages),
                      !.executions = <<[e EXCEPT !.handlers = rest]>> \o Tail(@),
                      !.chunkLength = r.chunkLength,
                      !.reserveId = r.id,
                      !.calls = [@ EXCEPT ![e.cmd].got = @ \o <<msg>>]]
        IN  IF r.threw
            THEN [st |-> onThrow(st1, e.cmd, r.err), removed |-> TRUE]
            ELSE IF rest = <<>>
            THEN [st |-> onLastStep(st1, e.cmd, r.value), removed |-> TRUE]
            ELSE RunHead(st1)

\* flushExecutions(): the for loop from index i
RECURSIVE flushFrom(_, _)
flushFrom(st, i) ==
  IF i >= Len(st.executions) THEN st
  ELSE IF st.messages = <<>> THEN st
  ELSE LET r == RunHead(st)
       IN  flushFrom(r.st, IF r.removed THEN i ELSE i + 1)

\* a flushExecutions that leaves the frames it has passed in the list
flushExecutionsKeepsMessages(st) ==
  [flushFrom(st, 0) EXCEPT !.messages = st.messages]

\* flushExecutions()
flushExecutions(st) == flushFrom(st, 0)

\* ---------------------------------------------------------- frame assembly

\* a cut that keeps the delimiter in the frame
PayloadIndexKeepsDelimiter(head, cl) == Len(head)

\* where processChunk cuts head when chunkLength > 0
PayloadIndex(head, cl) == Len(head) - Len(DELIMITER)

RECURSIVE processChunk(_, _)

\* a processChunk that cuts one frame and leaves the rest to the next event
processChunkOnce(st, head) ==
  LET waiting == /\ st.chunkLength > 0
                 /\ st.chunkLength - Len(head) > -Len(DELIMITER)
      index == IF st.chunkLength > 0
               THEN PayloadIndex(head, st.chunkLength)
               ELSE findIndex(head, DELIMITER)
      st1 == IF st.chunkLength > 0 THEN [st EXCEPT !.chunkLength = 0] ELSE st
  IN  IF waiting THEN st
      ELSE IF index > -1
      THEN [flushExecutions(
              [st1 EXCEPT !.messages = @ \o <<Slice(head, 0, index)>>])
              EXCEPT !.buffer = Slice(head, index + Len(DELIMITER), Len(head))]
      ELSE st1

\* a processChunk that cuts the payload frame from whatever has arrived
processChunkWithoutWaiting(st, head) ==
  LET index == IF st.chunkLength > 0
               THEN PayloadIndex(head, st.chunkLength)
               ELSE findIndex(head, DELIMITER)
      st1 == IF st.chunkLength > 0 THEN [st EXCEPT !.chunkLength = 0] ELSE st
  IN  IF index > -1
      THEN LET st2 == flushExecutions(
                        [st1 EXCEPT !.messages = @ \o <<Slice(head, 0, index)>>])
               tail == Slice(head, index + Len(DELIMITER), Len(head))
           IN  processChunk([st2 EXCEPT !.buffer = tail], tail)
      ELSE st1

\* a processChunk that cuts the payload frame and keeps the counter
processChunkKeepsCounter(st, head) ==
  LET waiting == /\ st.chunkLength > 0
                 /\ st.chunkLength - Len(head) > -Len(DELIMITER)
      index == IF st.chunkLength > 0
               THEN PayloadIndex(head, st.chunkLength)
               ELSE findIndex(head, DELIMITER)
  IN  IF waiting THEN st
      ELSE IF index > -1
      THEN LET st2 == flushExecutions(
                        [st EXCEPT !.messages = @ \o <<Slice(head, 0, index)>>])
               tail == Slice(head, index + Len(DELIMITER), Len(head))
           IN  processChunk([st2 EXCEPT !.buffer = tail], tail)
      ELSE st

\* a processChunk that takes a delimiter at index 0 for no delimiter
processChunkSkipsEmpty(st, head) ==
  LET waiting == /\ st.chunkLength > 0
                 /\ st.chunkLength - Len(head) > -Len(DELIMITER)
      index == IF st.chunkLength > 0
               THEN PayloadIndex(head, st.chunkLength)
               ELSE findIndex(head, DELIMITER)
      st1 == IF st.chunkLength > 0 THEN [st EXCEPT !.chunkLength = 0] ELSE st
  IN  IF waiting THEN st
      ELSE IF index > 0
      THEN LET st2 == flushExecutions(
                        [st1 EXCEPT !.messages = @ \o <<Slice(head, 0, index)>>])
               tail == Slice(head, index + Len(DELIMITER), Len(head))
           IN  processChunk([st2 EXCEPT !.buffer = tail], tail)
      ELSE st1

\* processChunk(head)
processChunk(st, head) ==
  LET waiting == /\ st.chunkLength > 0
                 /\ st.chunkLength - Len(head) > -Len(DELIMITER)
      index == IF st.chunkLength > 0
               THEN PayloadIndex(head, st.chunkLength)
               ELSE findIndex(head, DELIMITER)
      st1 == IF st.chunkLength > 0 THEN [st EXCEPT !.chunkLength = 0] ELSE st
  IN  IF waiting THEN st
      ELSE IF index > -1
      THEN LET st2 == flushExecutions(
                        [st1 EXCEPT !.messages = @ \o <<Slice(head, 0, index)>>])
               tail == Slice(head, index + Len(DELIMITER), Len(head))
           IN  processChunk([st2 EXCEPT !.buffer = tail], tail)
      ELSE st1

\* the client state the two functions above work on
ClientState ==
  [buffer |-> buffer, chunkLength |-> chunkLength, messages |-> messages,
   executions |-> executions, reserveId |-> reserveId, calls |-> calls]

\* socket.on("data", incoming)
onData(st, incoming) ==
  LET newBuffer == st.buffer \o incoming
  IN  processChunk([st EXCEPT !.buffer = newBuffer], newBuffer)

\* -------------------------------------------------------------- the server

\* the job payloads the server holds: the first n bytes of \r\na\r\na...,
\* so that a payload of two bytes or more contains the delimiter
PayloadPattern == <<CR, LF, "a">>
Payload(n) == [i \in 1..n |-> PayloadPattern[((i - 1) % Len(PayloadPattern)) + 1]]
Payloads == { Payload(n) : n \in 0..MaxPayload }

OneLine(line) == [line |-> line, hasPayload |-> FALSE, payload |-> <<>>]
WithPayload(line, p) == [line |-> line, hasPayload |-> TRUE, payload |-> p]
NoResponse == [line |-> <<>>, hasPayload |-> FALSE, payload |-> <<>>]

\* the responses beanstalkd gives to the k-th command; it numbers jobs by k
ServerResponses(kind, k) ==
  CASE kind = "put" ->
         { OneLine(INSERTED \o <<SP>> \o NumberToString(k)), OneLine(DRAINING) }
    [] kind = "delete" ->
         { OneLine(DELETED), OneLine(NOT_FOUND) }
    [] kind = "reserve" ->
         { WithPayload(RESERVED \o <<SP>> \o NumberToString(k) \o <<SP>>
                         \o NumberToString(Len(p)), p) : p \in Payloads }
           \cup { OneLine(TIMED_OUT) }

\* a response as bytes on the wire
WireBytes(r) ==
  r.line \o DELIMITER \o (IF r.hasPayload THEN r.payload \o DELIMITER ELSE <<>>)

\* a response as the frames it consists of
FramesOf(r) == <<r.line>> \o (IF r.hasPayload THEN <<r.payload>> ELSE <<>>)

\* ------------------------------------------------------------- the actions

\* the state of a new JackdClient. The `id` of the reserve handlers is not
\* initialised; it is assigned by the status step before the payload step
\* reads it, and starts as NaN here.
Init ==
  /\ connected = FALSE
  /\ buffer = <<>>
  /\ chunkLength = 0
  /\ messages = <<>>
  /\ executions = <<>>
  /\ reserveId = NaN
  /\ socket = "new"
  /\ writes = <<>>
  /\ sent = <<>>
  /\ wire = <<>>
  /\ calls = <<>>

\* socket.on("ready")
Ready ==
  /\ socket = "new"
  /\ socket' = "open"
  /\ connected' = TRUE
  /\ UNCHANGED <<buffer, chunkLength, messages, executions, reserveId,
                 writes, sent, wire, calls>>

\* a command method is called with valid arguments: the command string is
\* built and handed to socket.write, and the call waits for the write callback
Submit(kind) ==
  /\ socket = "open"
  /\ Len(calls) < MaxCmds
  /\ calls' = Append(calls, [kind |-> kind, outcome |-> "pending", value |-> Void,
                             emits |-> 0, order |-> 0, got |-> <<>>, answered |-> FALSE,
                             resp |-> NoResponse])
  /\ writes' = Append(writes, Len(calls) + 1)
  /\ UNCHANGED <<connected, buffer, chunkLength, messages, executions,
                 reserveId, socket, sent, wire>>

\* an unshift in place of the push
pushFront(execs, e) == <<e>> \o execs

\* a push without handlers.concat(): the execution shares the handler list
\* of a queued invocation of the same method
pushShared(execs, e) ==
  LET same == { i \in 1..Len(execs) : calls[execs[i].cmd].kind = calls[e.cmd].kind }
  IN  Append(execs,
             IF same = {} THEN e
             ELSE [e EXCEPT !.handlers = execs[CHOOSE i \in same : TRUE].handlers])

\* this.executions.push(execution)
push(execs, e) == Append(execs, e)

\* the write callback reports success: the call pushes its execution with a
\* copy of the handler list and waits on its emitter
WriteDone ==
  /\ writes # <<>>
  /\ socket = "open"
  /\ LET k == Head(writes)
     IN  /\ executions' = push(executions,
                               [cmd |-> k, handlers |-> HandlersOf(calls[k].kind)])
         /\ sent' = Append(sent, k)
  /\ writes' = Tail(writes)
  /\ UNCHANGED <<connected, buffer, chunkLength, messages, reserveId, socket,
                 wire, calls>>

\* a failed write after which the execution is pushed all the same
WriteFailPushes ==
  /\ writes # <<>>
  /\ socket = "closed"
  /\ LET k == Head(writes)
     IN  /\ calls' = [calls EXCEPT ![k] = [@ EXCEPT
                        !.outcome = "reject",
                        !.value = [type |-> "WriteError"]]]
         /\ executions' = push(executions,
                               [cmd |-> k, handlers |-> HandlersOf(calls[k].kind)])
  /\ writes' = Tail(writes)
  /\ UNCHANGED <<connected, buffer, chunkLength, messages,
                 reserveId, socket, sent, wire>>

\* the write callback reports an error: the call rejects, nothing is pushed
WriteFail ==
  /\ writes # <<>>
  /\ socket = "closed"
  /\ LET k == Head(writes)
     IN  calls' = [calls EXCEPT ![k] = [@ EXCEPT
                     !.outcome = "reject",
                     !.value = [type |-> "WriteError"]]]
  /\ writes' = Tail(writes)
  /\ UNCHANGED <<connected, buffer, chunkLength, messages, executions,
                 reserveId, socket, sent, wire>>

\* the server answers the oldest command it has not answered yet. A response
\* follows the write callback of its command: the callback and the push after
\* it run before the event loop reads the socket again.
Respond ==
  /\ sent # <<>>
  /\ socket = "open"
  /\ LET k == Head(sent)
     IN  \E r \in ServerResponses(calls[k].kind, k) :
           /\ wire' = wire \o WireBytes(r)
           /\ calls' = [calls EXCEPT ![k] = [@ EXCEPT !.answered = TRUE, !.resp = r]]
  /\ sent' = Tail(sent)
  /\ UNCHANGED <<connected, buffer, chunkLength, messages, executions,
                 reserveId, socket, writes>>

\* a data event delivers the next n bytes. The handler steps are synchronous,
\* so the awaits of processChunk and flushExecutions resume as microtasks and
\* the processing of one data event ends before the next event is emitted.
Data(n) ==
  /\ socket = "open"
  /\ n \in 1..Len(wire)
  /\ \E st \in {onData(ClientState, SubSeq(wire, 1, n))} :
         /\ buffer' = st.buffer
         /\ chunkLength' = st.chunkLength
         /\ messages' = st.messages
         /\ executions' = st.executions
         /\ reserveId' = st.reserveId
         /\ calls' = st.calls
  /\ wire' = SubSeq(wire, n + 1, Len(wire))
  /\ UNCHANGED <<connected, socket, writes, sent>>

\* socket.on("close")
Close ==
  /\ socket = "open"
  /\ socket' = "closed"
  /\ connected' = FALSE
  /\ UNCHANGED <<buffer, chunkLength, messages, executions, reserveId,
                 writes, sent, wire, calls>>

Next ==
  \/ Ready
  \/ \E kind \in Kinds : Submit(kind)
  \/ WriteDone
  \/ WriteFail
  \/ Respond
  \/ \E n \in 1..Len(wire) : Data(n)
  \/ Close

Spec == Init /\ [][Next]_vars

\* ------------------------------------------------ the command methods

\* every command method of the client
AllKinds ==
  {"put", "use", "reserve", "reserveRaw", "reserveWithTimeout", "reserveJob",
   "delete", "release", "bury", "touch", "watch", "ignore", "pauseTube",
   "peek", "peekReady", "peekDelayed", "peekBuried", "kick", "kickJob",
   "statsJob", "statsTube", "stats", "listTubes", "listTubesWatched",
   "listTubeUsed"}

\* commandStringFunction.apply(this, args): a is the first argument of the
\* call and b the second
CommandString(kind, args) ==
  CASE kind = "put"        -> putCommand(args.a, args.b)
    [] kind = "use"        -> useCommand(args.a)
    [] kind \in {"reserve", "reserveRaw"} -> reserveCommand
    [] kind = "reserveWithTimeout" -> reserveWithTimeoutCommand(args.a)
    [] kind = "reserveJob" -> reserveJobCommand(args.a)
    [] kind = "delete"     -> deleteCommand(args.a)
    [] kind = "release"    -> releaseCommand(args.a, args.b)
    [] kind = "bury"       -> buryCommand(args.a, args.b)
    [] kind = "touch"      -> touchCommand(args.a)
    [] kind = "watch"      -> watchCommand(args.a)
    [] kind = "ignore"     -> ignoreCommand(args.a)
    [] kind = "pauseTube"  -> pauseTubeCommand(args.a, args.b)
    [] kind = "peek"       -> peekCommand(args.a)
    [] kind = "peekReady"  -> peekReadyCommand
    [] kind = "peekDelayed" -> peekDelayedCommand
    [] kind = "peekBuried" -> peekBuriedCommand
    [] kind = "kick"       -> kickCommand(args.a)
    [] kind = "kickJob"    -> kickJobCommand(args.a)
    [] kind = "statsJob"   -> statsJobCommand(args.a)
    [] kind = "statsTube"  -> statsTubeCommand(args.a)
    [] kind = "stats"      -> statsCommand
    [] kind = "listTubes"  -> listTubesCommand
    [] kind = "listTubesWatched" -> listTubesWatchedCommand
    [] kind = "listTubeUsed" -> listTubeUsedCommand

\* the arguments callers give: a number up to MaxArg or nothing, a tube name
\* or nothing, an options object with any of its fields left out
Numbers == { Num(n) : n \in 0..MaxArg }
Tubes == { Str(<<"t">>) }
Opts(names) == UNION { [S -> 0..MaxArg] : S \in SUBSET names }

hello == <<"h","e","l","l","o">>

\* the payloads given to put: strings, one of them with a character that is
\* two bytes long, a Uint8Array, two plain objects, the empty string, nothing
CallPayloads ==
  { Str(hello), Str(<<"a", EAcute>>), Str(<<>>), Void,
    [type |-> "bytes", data |-> <<CR, LF>>],
    [type |-> "object", entries |-> <<[key |-> <<"f","o","o">>, value |-> <<"b","a","r">>]>>],
    [type |-> "object", entries |-> <<[key |-> <<"k">>, value |-> <<EAcute>>]>>] }

ArgsOf(kind) ==
  CASE kind = "put" ->
         { [a |-> p, b |-> o] : p \in CallPayloads,
                                o \in Opts({"priority", "delay", "ttr"}) }
    [] kind = "release" ->
         { [a |-> i, b |-> o] : i \in Numbers \cup {Void},
                                o \in Opts({"priority", "delay"}) }
    [] kind = "bury" ->
         { [a |-> i, b |-> q] : i \in Numbers \cup {Void},
                                q \in Numbers \cup {Void} }
    [] kind = "pauseTube" ->
         { [a |-> t, b |-> o] : t \in Tubes \cup {Void}, o \in Opts({"delay"}) }
    [] kind \in {"use", "watch", "ignore", "statsTube"} ->
         { [a |-> t, b |-> Void] : t \in Tubes \cup {Void} }
    [] kind \in {"reserveWithTimeout", "reserveJob", "delete", "touch", "peek",
                 "kick", "kickJob", "statsJob"} ->
         { [a |-> i, b |-> Void] : i \in Numbers \cup {Void} }
    [] OTHER -> { [a |-> Void, b |-> Void] }

\* a command method is called: the command string function runs, and when it
\* throws the call rejects at once; otherwise the bytes are handed to
\* socket.write and the call waits for the write callback
Call(kind, args) ==
  /\ socket = "open"
  /\ \E enc \in {CommandString(kind, args)} :
       /\ calls' = Append(calls,
                     [kind |-> kind,
                      outcome |-> IF enc.threw THEN "reject" ELSE "pending",
                      value |-> IF enc.threw THEN enc.err ELSE Void,
                      emits |-> 0, order |-> 0, got |-> <<>>, answered |-> FALSE,
                      resp |-> NoResponse, args |-> args, written |-> enc.bytes])
       /\ writes' = IF enc.threw THEN writes ELSE Append(writes, Len(calls) + 1)
  /\ UNCHANGED <<connected, buffer, chunkLength, messages, executions,
                 reserveId, socket, sent, wire>>

\* a command method is called on a new client, with any arguments
NextCalls ==
  \/ Ready
  \/ \E kind \in AllKinds : \E args \in ArgsOf(kind) :
       calls = <<>> /\ Call(kind, args)
  \/ WriteDone

SpecCalls == Init /\ [][NextCalls]_vars

\* ---------------------------------------------------------- sessions

\* the arguments of a well-formed call
ValidArgs(kind) ==
  CASE kind = "put" -> [a |-> Str(hello), b |-> NoOpts]
    [] kind = "release" -> [a |-> Num(1), b |-> NoOpts]
    [] kind = "bury" -> [a |-> Num(1), b |-> Void]
    [] kind = "pauseTube" -> [a |-> Str(<<"t">>), b |-> NoOpts]
    [] kind \in {"use", "watch", "ignore", "statsTube"} ->
         [a |-> Str(<<"t">>), b |-> Void]
    [] kind \in {"reserveWithTimeout", "reserveJob", "delete", "touch", "peek",
                 "kick", "kickJob", "statsJob"} ->
         [a |-> Num(1), b |-> Void]
    [] OTHER -> [a |-> Void, b |-> Void]

\* the commands of a session: any command first, then a put or a reserve,
\* then deletes
SessionKinds(n) ==
  CASE n = 1 -> AllKinds
    [] n = 2 -> {"put", "reserve"}
    [] OTHER -> {"delete"}

\* the caller of a session awaits each command before it calls the next
SessionCall(kind) ==
  /\ Len(calls) < MaxSession
  /\ kind \in SessionKinds(Len(calls) + 1)
  /\ \A k \in 1..Len(calls) : calls[k].outcome # "pending"
  /\ Call(kind, ValidArgs(kind))

\* every status token of the protocol
Tokens ==
  {RESERVED, INSERTED, USING, TOUCHED, DELETED, BURIED, RELEASED, NOT_FOUND,
   OUT_OF_MEMORY, INTERNAL_ERROR, BAD_FORMAT, UNKNOWN_COMMAND, EXPECTED_CRLF,
   JOB_TOO_BIG, DRAINING, TIMED_OUT, DEADLINE_SOON, FOUND, WATCHING,
   NOT_IGNORED, KICKED, PAUSED, OK}

\* the id beanstalkd gives to the job of the k-th command when it is a put:
\* one more than the jobs inserted before it
JobsBefore(k) ==
  Cardinality({ j \in 1..(k - 1) :
                  /\ calls[j].kind = "put"
                  /\ calls[j].answered
                  /\ StartsWith(calls[j].resp.line, INSERTED) })

YamlDocument == <<"a",":",SP,"1">>

\* the response of beanstalkd to the k-th command when the command succeeds;
\* the job it holds is job 1, with the body hello
Success(kind, k) ==
  CASE kind = "put" -> OneLine(INSERTED \o <<SP>> \o NumberToString(JobsBefore(k) + 1))
    [] kind \in {"use", "listTubeUsed"} -> OneLine(USING \o <<SP, "t">>)
    [] kind \in {"reserve", "reserveRaw", "reserveWithTimeout", "reserveJob"} ->
         WithPayload(RESERVED \o <<SP, "1", SP>> \o NumberToString(Len(hello)), hello)
    [] kind = "delete" -> OneLine(DELETED)
    [] kind = "release" -> OneLine(RELEASED)
    [] kind = "bury" -> OneLine(BURIED)
    [] kind = "touch" -> OneLine(TOUCHED)
    [] kind \in {"watch", "ignore"} -> OneLine(WATCHING \o <<SP, "1">>)
    [] kind = "pauseTube" -> OneLine(PAUSED)
    [] kind \in {"peek", "peekReady", "peekDelayed", "peekBuried"} ->
         WithPayload(FOUND \o <<SP, "1", SP>> \o NumberToString(Len(hello)), hello)
    [] kind = "kick" -> OneLine(KICKED \o <<SP, "1">>)
    [] kind = "kickJob" -> OneLine(KICKED)
    [] kind \in {"statsJob", "statsTube", "stats", "listTubes", "listTubesWatched"} ->
         WithPayload(OK \o <<SP>> \o NumberToString(Len(YamlDocument)), YamlDocument)

\* the responses that carry the payload p: a reserved job, a found job, a
\* YAML document
PayloadReplies(p) ==
  { WithPayload(RESERVED \o <<SP, "1", SP>> \o NumberToString(Len(p)), p),
    WithPayload(FOUND \o <<SP, "1", SP>> \o NumberToString(Len(p)), p),
    WithPayload(OK \o <<SP>> \o NumberToString(Len(p)), p) }

\* the responses to the k-th command of a session: the first command is
\* answered with any response of the protocol, the success of any command,
\* a payload that is itself a delimiter, or a bare status token or
\* BURIED <id>; the commands after it succeed
Replies(kind, k) ==
  IF k = 1
  THEN { Success(x, k) : x \in AllKinds }
         \cup PayloadReplies(DELIMITER)
         \cup { OneLine(t) : t \in Tokens }
         \cup { OneLine(BURIED \o <<SP, "1">>) }
  ELSE { Success(kind, k) }

\* the server answers the oldest command it has not answered yet
Reply ==
  /\ sent # <<>>
  /\ socket = "open"
  /\ LET k == Head(sent)
     IN  \E r \in Replies(calls[k].kind, k) :
           /\ wire' = wire \o WireBytes(r)
           /\ calls' = [calls EXCEPT ![k] = [@ EXCEPT !.answered = TRUE, !.resp = r]]
  /\ sent' = Tail(sent)
  /\ UNCHANGED <<connected, buffer, chunkLength, messages, executions,
                 reserveId, socket, writes>>

NextSession ==
  \/ Ready
  \/ \E kind \in AllKinds : SessionCall(kind)
  \/ WriteDone
  \/ Reply
  \/ \E n \in 1..Len(wire) : Data(n)

SpecSession == Init /\ [][NextSession]_vars

\* ------------------------------------------------ the put round trip

RECURSIVE SeqsOfLen(_, _)
SeqsOfLen(S, n) ==
  IF n = 0 THEN {<<>>}
  ELSE { <<x>> \o t : x \in S, t \in SeqsOfLen(S, n - 1) }

\* the payloads given to put: every byte sequence up to MaxPutPayload, as a
\* string and as a Uint8Array
PutPayloads ==
  { [type |-> t, data |-> d] :
      t \in {"string", "bytes"},
      d \in UNION { SeqsOfLen(PayloadBytes, n) : n \in 0..MaxPutPayload } }

\* The bytes put produces for a payload are fed back to a client whose queue
\* holds one reader of put commands: the wire holds what put produced, nothing
\* when it threw.
InitRoundTrip ==
  \E p \in PutPayloads :
    LET enc == putCommand(p, [x \in {} |-> 0])
    IN  /\ wire = enc.bytes
        /\ calls = <<[kind |-> "putReader", outcome |-> "pending", value |-> Void,
                      emits |-> 0, order |-> 0, got |-> <<>>, answered |-> TRUE,
                      resp |-> WithPayload(<<>>, p.data), payload |-> p,
                      threw |-> enc.threw]>>
        /\ executions = <<[cmd |-> 1, handlers |-> HandlersOf("putReader")]>>
        /\ connected = TRUE
        /\ socket = "open"
        /\ buffer = <<>>
        /\ chunkLength = 0
        /\ messages = <<>>
        /\ reserveId = NaN
        /\ writes = <<>>
        /\ sent = <<>>

NextRoundTrip == \E n \in 1..Len(wire) : Data(n)

SpecRoundTrip == InitRoundTrip /\ [][NextRoundTrip]_vars

\* ------------------------------------------------ pipelined reserves

\* the two reserve commands that wait for a job
ReserveKinds == {"reserve", "reserveWithTimeout"}

\* the commands of a pipeline: a reserve first, then puts and reserves
PipelineKinds(n) == IF n = 1 THEN ReserveKinds ELSE {"put", "reserve"}

\* a command is called while earlier ones may still be unanswered
PipelineCall(kind) ==
  /\ kind \in PipelineKinds(Len(calls) + 1)
  /\ Submit(kind)

\* the responses of beanstalkd to the k-th command of a pipeline: a reserve
\* times out, is told of a deadline, or is given a job of one byte
PipelineResponses(kind, k) ==
  IF kind = "put"
  THEN { OneLine(INSERTED \o <<SP>> \o NumberToString(k)) }
  ELSE { OneLine(TIMED_OUT), OneLine(DEADLINE_SOON),
         WithPayload(RESERVED \o <<SP>> \o NumberToString(k) \o <<SP, "1">>, Payload(1)) }

\* the server answers the oldest command it has not answered yet
PipelineRespond ==
  /\ sent # <<>>
  /\ socket = "open"
  /\ LET k == Head(sent)
     IN  \E r \in PipelineResponses(calls[k].kind, k) :
           /\ wire' = wire \o WireBytes(r)
           /\ calls' = [calls EXCEPT ![k] = [@ EXCEPT !.answered = TRUE, !.resp = r]]
  /\ sent' = Tail(sent)
  /\ UNCHANGED <<connected, buffer, chunkLength, messages, executions,
                 reserveId, socket, writes>>

NextPipeline ==
  \/ Ready
  \/ \E kind \in ReserveKinds \cup {"put"} : PipelineCall(kind)
  \/ WriteDone
  \/ PipelineRespond
  \/ \E n \in 1..Len(wire) : Data(n)

SpecPipeline == Init /\ [][NextPipeline]_vars

\* ---------------------------------------------- classifying status lines

\* the status lines given to validate: every token bare, with an argument,
\* cut short by a byte and behind another byte, the empty line, and a line
\* of two bytes that are one character
StatusLines ==
  UNION { { t, t \o <<SP, "1">>, SubSeq(t, 1, Len(t) - 1), <<"x">> \o t } : t \in Tokens }
    \cup { <<>>, <<"xC3", "xA9">> }

\* the lists of additional responses the handler steps pass to validate
ExtraLists ==
  { <<>>,
    <<BURIED, EXPECTED_CRLF, JOB_TOO_BIG, DRAINING>>,
    <<DEADLINE_SOON, TIMED_OUT>>,
    <<DEADLINE_SOON, TIMED_OUT, NOT_FOUND>>,
    <<NOT_FOUND>>,
    <<BURIED, NOT_FOUND>>,
    <<NOT_IGNORED>>,
    <<NOT_FOUND, DEADLINE_SOON, TIMED_OUT>> }

\* a new client, and one status line with one list of additional responses
InitValidate ==
  /\ \E line \in StatusLines, extra \in ExtraLists :
       calls = <<[kind |-> "validate", line |-> line, extra |-> extra,
                  results |-> <<>>]>>
  /\ connected = FALSE
  /\ buffer = <<>>
  /\ chunkLength = 0
  /\ messages = <<>>
  /\ executions = <<>>
  /\ reserveId = NaN
  /\ socket = "new"
  /\ writes = <<>>
  /\ sent = <<>>
  /\ wire = <<>>

\* validate(buffer, additionalResponses) is called on the line: a function
\* of the module, it reads and writes no field of the client
Classify ==
  /\ Len(calls[1].results) < MaxClassify
  /\ calls' = [calls EXCEPT ![1].results =
                 Append(@, validate(calls[1].line, calls[1].extra))]
  /\ UNCHANGED <<connected, buffer, chunkLength, messages, executions,
                 reserveId, socket, writes, sent, wire>>

NextValidate == Classify

SpecValidate == InitValidate /\ [][NextValidate]_vars

\* ---------------------------------------------------- the connection

\* the bytes quit hands to socket.end
quitCommand == <<"q","u","i","t">> \o DELIMITER

\* the socket between connect and its close event: open, ended by
\* socket.end, or after an error event
Alive == {"open", "ended", "errored"}

\* connect() on a client whose socket has closed: the socket connects again
\* and emits ready
Reconnect ==
  /\ socket = "closed"
  /\ socket' = "open"
  /\ connected' = TRUE
  /\ UNCHANGED <<buffer, chunkLength, messages, executions, reserveId,
                 writes, sent, wire, calls>>

\* a quit that resolves when socket.end returns
quitWithoutWaiting ==
  /\ Len(calls) < MaxQuit
  /\ calls' = Append(calls,
                 [kind |-> "quit", outcome |-> "resolve", value |-> Void,
                  wasConnected |-> connected,
                  written |-> IF connected THEN quitCommand ELSE <<>>,
                  listening |-> FALSE, closed |-> FALSE,
                  seen |-> IF connected THEN "connected" ELSE "not connected"])
  /\ socket' = IF connected /\ socket = "open" THEN "ended" ELSE socket
  /\ UNCHANGED <<connected, buffer, chunkLength, messages, executions,
                 reserveId, writes, sent, wire>>

\* quit(), close() or disconnect(): on a client that is not connected it
\* returns; on a connected one it listens once for close and for error,
\* hands quit\r\n to socket.end and waits. seen is the value of connected
\* the caller finds when the call has resolved.
quit ==
  /\ Len(calls) < MaxQuit
  /\ calls' = Append(calls,
                 [kind |-> "quit",
                  outcome |-> IF connected THEN "pending" ELSE "resolve",
                  value |-> Void,
                  wasConnected |-> connected,
                  written |-> IF connected THEN quitCommand ELSE <<>>,
                  listening |-> connected, closed |-> FALSE,
                  seen |-> IF connected THEN "pending" ELSE "not connected"])
  /\ socket' = IF connected /\ socket = "open" THEN "ended" ELSE socket
  /\ UNCHANGED <<connected, buffer, chunkLength, messages, executions,
                 reserveId, writes, sent, wire>>

\* the socket emits error: the calls of quit that listen for it reject. An
\* error follows a failure of the connection, or a second socket.end after
\* the first.
SocketError ==
  /\ socket \in {"open", "ended"}
  /\ socket' = "errored"
  /\ calls' = [k \in 1..Len(calls) |->
                 IF calls[k].listening /\ calls[k].outcome = "pending"
                 THEN [calls[k] EXCEPT !.outcome = "reject",
                                       !.value = [type |-> "SocketError"],
                                       !.seen = "connected"]
                 ELSE calls[k]]
  /\ UNCHANGED <<connected, buffer, chunkLength, messages, executions,
                 reserveId, writes, sent, wire>>

\* the socket emits close: the listener of the constructor runs, then the
\* listeners of the waiting calls of quit, and the calls resume after them
SocketClose ==
  /\ socket \in Alive
  /\ socket' = "closed"
  /\ connected' = FALSE
  /\ calls' = [k \in 1..Len(calls) |->
                 [calls[k] EXCEPT
                    !.closed = TRUE,
                    !.listening = FALSE,
                    !.outcome = IF calls[k].listening /\ @ = "pending"
                                THEN "resolve" ELSE @,
                    !.seen = IF calls[k].listening /\ calls[k].outcome = "pending"
                             THEN "not connected" ELSE @]]
  /\ UNCHANGED <<buffer, chunkLength, messages, executions, reserveId,
                 writes, sent, wire>>

NextConnection ==
  \/ Ready
  \/ Reconnect
  \/ quit
  \/ SocketError
  \/ SocketClose

SpecConnection == Init /\ [][NextConnection]_vars

\* ------------------------------------------------------ connecting again

\* connect() on the client whose socket has closed: the socket connects and
\* emits "ready". The fields of the client are those the constructor set and
\* the earlier connection left: no listener and no line of connect() assigns
\* buffer, chunkLength, messages or executions. The bytes in flight and the
\* commands the server had not answered went with the earlier connection.
\* Each call made so far is marked with the number of frames it was passed
\* on the earlier connection.
ConnectAgain ==
  /\ socket = "closed"
  /\ writes = <<>>
  /\ socket' = "open"
  /\ connected' = TRUE
  /\ wire' = <<>>
  /\ sent' = <<>>
  /\ calls' = [k \in 1..Len(calls) |->
                 calls[k] @@ [earlier |-> Len(calls[k].got)]]
  /\ UNCHANGED <<buffer, chunkLength, messages, executions, reserveId, writes>>

\* a command is called, on the first connection or on a later one
MaxReconnect == 2

ReconnectCall(kind) ==
  /\ Len(calls) < MaxReconnect
  /\ PipelineCall(kind)

NextReconnect ==
  \/ Ready
  \/ \E kind \in ReserveKinds \cup {"put"} : ReconnectCall(kind)
  \/ WriteDone
  \/ WriteFail
  \/ PipelineRespond
  \/ \E n \in 1..Len(wire) : Data(n)
  \/ Close
  \/ ConnectAgain

SpecReconnect == Init /\ [][NextReconnect]_vars

\* ------------------------------------------ asynchronous handler steps

\* A handler step may return a promise (CommandHandler<T> is
\* (chunk) => T | Promise<T>), and flushExecutions awaits it. The commands of
\* this section are made with createCommandHandler from one such step. While
\* its promise is pending, processChunk and flushExecutions are suspended at
\* `await handler(...)`; the suspended call is kept in the record of the
\* command whose step it awaits: the head and the index of the processChunk
\* call, and the loop index i of flushExecutions.
MaxAsync == 3

NoTask == [pending |-> FALSE, head |-> <<>>, index |-> -1, i |-> 0]

\* the value the asynchronous step fulfils its promise with
asyncHandler(msg) == Str(TextDecode(msg))

\* flushExecutions(), from loop index i, called by processChunk(head) after
\* it has found a frame at index: it ends, or it is suspended at the await
\* of a handler step
RECURSIVE flushExecutionsAsync(_, _, _, _)
flushExecutionsAsync(st, head, index, i) ==
  IF i >= Len(st.executions) THEN [st |-> st, suspended |-> FALSE]
  ELSE IF st.messages = <<>> THEN [st |-> st, suspended |-> FALSE]
  ELSE LET e == Head(st.executions)
       IN  IF e.handlers = <<>>
           THEN flushExecutionsAsync(st, head, index, i + 1)
           ELSE [suspended |-> TRUE,
                 st |-> [st EXCEPT
                    !.messages = Tail(@),
                    !.executions = <<[e EXCEPT !.handlers = Tail(@)]>> \o Tail(@),
                    !.calls = [@ EXCEPT ![e.cmd] = [@ EXCEPT
                                 !.got = @ \o <<Head(st.messages)>>,
                                 !.task = [pending |-> TRUE, head |-> head,
                                           index |-> index, i |-> i]]]]]

RECURSIVE processChunkAsync(_, _)

\* processChunk(head) after `await this.flushExecutions()`
afterFlush(st, head, index) ==
  LET tail == Slice(head, index + Len(DELIMITER), Len(head))
  IN  processChunkAsync([st EXCEPT !.buffer = tail], tail)

\* processChunk(head), up to its end or to the await of a handler step
processChunkAsync(st, head) ==
  LET waiting == /\ st.chunkLength > 0
                 /\ st.chunkLength - Len(head) > -Len(DELIMITER)
      index == IF st.chunkLength > 0
               THEN PayloadIndex(head, st.chunkLength)
               ELSE findIndex(head, DELIMITER)
      st1 == IF st.chunkLength > 0 THEN [st EXCEPT !.chunkLength = 0] ELSE st
  IN  IF waiting THEN st
      ELSE IF index > -1
      THEN LET r == flushExecutionsAsync(
                      [st1 EXCEPT !.messages = @ \o <<Slice(head, 0, index)>>],
                      head, index, 0)
           IN  IF r.suspended THEN r.st ELSE afterFlush(r.st, head, index)
      ELSE st1

\* the promise of the step of command k is fulfilled: the handler list of its
\* execution is empty, so flushExecutions emits "resolve", shifts the queue,
\* goes on with its loop, and processChunk goes on after it
resumeAsync(st, k) ==
  LET t  == st.calls[k].task
      st1 == [st EXCEPT
                !.calls = Emit([@ EXCEPT ![k] = [@ EXCEPT !.task = NoTask]],
                               k, "resolve", asyncHandler(st.calls[k].got[1])),
                !.executions = Tail(@)]
      r  == flushExecutionsAsync(st1, t.head, t.index, t.i)
  IN  IF r.suspended THEN r.st ELSE afterFlush(r.st, t.head, t.index)

\* a command made from an asynchronous step is called
AsyncCall ==
  /\ socket = "open"
  /\ Len(calls) < MaxAsync
  /\ calls' = Append(calls, [kind |-> "async", outcome |-> "pending", value |-> Void,
                             emits |-> 0, order |-> 0, got |-> <<>>, answered |-> FALSE,
                             resp |-> NoResponse, task |-> NoTask])
  /\ writes' = Append(writes, Len(calls) + 1)
  /\ UNCHANGED <<connected, buffer, chunkLength, messages, executions,
                 reserveId, socket, sent, wire>>

\* the write callback reports success: the execution is pushed
AsyncWriteDone ==
  /\ writes # <<>>
  /\ socket = "open"
  /\ executions' = push(executions, [cmd |-> Head(writes), handlers |-> <<"async">>])
  /\ sent' = Append(sent, Head(writes))
  /\ writes' = Tail(writes)
  /\ UNCHANGED <<connected, buffer, chunkLength, messages, reserveId, socket,
                 wire, calls>>

\* the server answers the oldest command it has not answered yet, the k-th
\* with the line k
AsyncRespond ==
  /\ sent # <<>>
  /\ socket = "open"
  /\ LET k == Head(sent)
         r == OneLine(NumberToString(k))
     IN  /\ wire' = wire \o WireBytes(r)
         /\ calls' = [calls EXCEPT ![k] = [@ EXCEPT !.answered = TRUE, !.resp = r]]
  /\ sent' = Tail(sent)
  /\ UNCHANGED <<connected, buffer, chunkLength, messages, executions,
                 reserveId, socket, writes>>

\* a data event delivers the next n bytes, also while an earlier processChunk
\* is suspended
AsyncData(n) ==
  /\ socket = "open"
  /\ n \in 1..Len(wire)
  /\ \E newBuffer \in {buffer \o SubSeq(wire, 1, n)} :
       \E st \in {processChunkAsync([ClientState EXCEPT !.buffer = newBuffer],
                                    newBuffer)} :
         /\ buffer' = st.buffer
         /\ chunkLength' = st.chunkLength
         /\ messages' = st.messages
         /\ executions' = st.executions
         /\ calls' = st.calls
  /\ wire' = SubSeq(wire, n + 1, Len(wire))
  /\ UNCHANGED <<connected, reserveId, socket, writes, sent>>

\* the promise of a pending step is fulfilled and the suspended call goes on
AsyncSettle(k) ==
  /\ k \in 1..Len(calls)
  /\ calls[k].task.pending
  /\ \E st \in {resumeAsync(ClientState, k)} :
         /\ buffer' = st.buffer
         /\ chunkLength' = st.chunkLength
         /\ messages' = st.messages
         /\ executions' = st.executions
         /\ calls' = st.calls
  /\ UNCHANGED <<connected, reserveId, socket, writes, sent, wire>>

NextAsync ==
  \/ Ready
  \/ AsyncCall
  \/ AsyncWriteDone
  \/ AsyncRespond
  \/ \E n \in 1..Len(wire) : AsyncData(n)
  \/ \E k \in 1..MaxAsync : AsyncSettle(k)

SpecAsync == Init /\ [][NextAsync]_vars

\* ------------------------------------------------------------ properties

IsPrefix(a, b) == Len(a) <= Len(b) /\ SubSeq(b, 1, Len(a)) = a

\* the emitter of call k has fired
Fired(k) == calls[k].emits > 0

\* what a command comes to when its handler steps are run on the frames of
\* its own response
ExpectedOutcome(kind, r) ==
  LET hs == HandlersOf(kind)
      fs == FramesOf(r)
      r1 == Invoke(hs[1], fs[1], 0, NaN)
  IN  IF r1.threw THEN [outcome |-> "reject", value |-> r1.err]
      ELSE IF Len(hs) = 1 THEN [outcome |-> "resolve", value |-> r1.value]
      ELSE [outcome |-> "resolve",
            value |-> Invoke(hs[2], fs[2], r1.chunkLength, r1.id).value]

OutcomeOf(c) == [outcome |-> c.outcome, value |-> c.value]

\* the bytes of the responses to the commands after k
RECURSIVE BytesFrom(_)
BytesFrom(j) ==
  IF j > Len(calls) THEN 0
  ELSE (IF calls[j].answered THEN Len(WireBytes(calls[j].resp)) ELSE 0)
         + BytesFrom(j + 1)

\* every byte of the responses to command k and to the commands before it has
\* been delivered in data events
Delivered(k) ==
  /\ calls[k].answered
  /\ Len(wire) <= BytesFrom(k + 1)

\* C1: the frames passed to the handler steps of the k-th command are frames
\* of the k-th response, in order, and the command's result or failure is the
\* one its own response gives.
C1_ResponseCorrelation ==
  \A k \in 1..Len(calls) :
    /\ IsPrefix(calls[k].got,
                IF calls[k].answered THEN FramesOf(calls[k].resp) ELSE <<>>)
    /\ Fired(k) => OutcomeOf(calls[k]) = ExpectedOutcome(calls[k].kind, calls[k].resp)

\* C2: completions fire in submission order: when the completion of a command
\* has fired, the completion of every command submitted before it has fired,
\* and fired earlier.
C2_FifoCompletion ==
  \A j, k \in 1..Len(calls) :
    (j < k /\ Fired(k)) => (Fired(j) /\ calls[j].order < calls[k].order)

\* three commands, one of them with a payload, have all completed
C2_Witness ==
  /\ Len(calls) = 3
  /\ \A k \in 1..3 : Fired(k) /\ calls[k].order = k
  /\ \E k \in 1..3 : calls[k].kind = "reserve" /\ calls[k].outcome = "resolve"

\* C3: no command whose completion has fired remains in the queue, and once a
\* command has been rejected every command submitted after it completes with
\* its own result when its response has arrived.
C3_FailureIsolation ==
  /\ \A i \in 1..Len(executions) : ~Fired(executions[i].cmd)
  /\ \A k, j \in 1..Len(calls) :
       (k < j /\ Fired(k) /\ calls[k].outcome = "reject" /\ Delivered(j))
         => /\ Fired(j)
            /\ OutcomeOf(calls[j]) = ExpectedOutcome(calls[j].kind, calls[j].resp)

\* the bytes a data step delivers
Incoming == SubSeq(wire, 1, Len(wire) - Len(wire'))

\* the payload cut of the protocol: the first N bytes are the frame, two
\* bytes are dropped, the counter is 0, the rest is parsed on
PayloadCut(st, head) ==
  LET n == st.chunkLength
      st1 == flushExecutions([st EXCEPT !.chunkLength = 0,
                                        !.messages = @ \o <<SubSeq(head, 1, n)>>])
      tail == SubSeq(head, n + Len(DELIMITER) + 1, Len(head))
  IN  processChunk([st1 EXCEPT !.buffer = tail], tail)

\* C4: a data event that brings the buffer to at least N+2 bytes while the
\* counter is N > 0 emits exactly the first N bytes as the frame, drops the
\* two delimiter bytes, resets the counter and parses the bytes after them as
\* the following frames.
C4_PayloadFrameBoundary ==
  [][(/\ Len(wire') < Len(wire)
      /\ chunkLength > 0
      /\ Len(buffer) + Len(Incoming) >= chunkLength + Len(DELIMITER))
       => ClientState' = PayloadCut([ClientState EXCEPT !.buffer = @ \o Incoming],
                                    buffer \o Incoming)]_vars

\* every submitted command has been answered and every byte delivered
AllDelivered ==
  /\ calls # <<>>
  /\ writes = <<>>
  /\ sent = <<>>
  /\ wire = <<>>
  /\ \A k \in 1..Len(calls) : calls[k].answered

RECURSIVE WholeStream(_)
WholeStream(k) ==
  IF k > Len(calls) THEN <<>>
  ELSE WireBytes(calls[k].resp) \o WholeStream(k + 1)

\* the same commands, all queued, and their responses in a single data event
OneShot ==
  onData([buffer |-> <<>>, chunkLength |-> 0, messages |-> <<>>,
          executions |-> [k \in 1..Len(calls) |->
                            [cmd |-> k, handlers |-> HandlersOf(calls[k].kind)]],
          reserveId |-> NaN,
          calls |-> [k \in 1..Len(calls) |->
                       [calls[k] EXCEPT !.outcome = "pending", !.value = Void,
                                        !.emits = 0, !.order = 0, !.got = <<>>]]],
         WholeStream(1))

\* the frames a client state has seen, and the results of its commands
RECURSIVE FramesGot(_, _)
FramesGot(cs, k) ==
  IF k > Len(cs) THEN <<>> ELSE cs[k].got \o FramesGot(cs, k + 1)

Observed(st) ==
  [frames |-> FramesGot(st.calls, 1) \o st.messages,
   results |-> [k \in 1..Len(st.calls) |-> OutcomeOf(st.calls[k])]]

\* C5: however the response bytes were split into data events, the frames
\* and the command results are those of a single data event.
C5_FragmentationInvariance ==
  AllDelivered => Observed(ClientState) = Observed(OneShot)

\* C6: a payload that contains \r\n reaches the payload step of its reserve
\* as one frame, byte for byte, and is the payload of the result.
C6_EmbeddedDelimiter ==
  \A k \in 1..Len(calls) :
    (/\ calls[k].kind = "reserve"
     /\ calls[k].answered
     /\ calls[k].resp.hasPayload
     /\ findIndex(calls[k].resp.payload, DELIMITER) > -1)
      => /\ Len(calls[k].got) >= 2 => calls[k].got[2] = calls[k].resp.payload
         /\ calls[k].outcome = "resolve"
              => calls[k].value = Job(k, calls[k].resp.payload)

\* C7: once the bytes put produced for a payload have all been fed back, the
\* reader has seen two frames, the command line and the payload unchanged.
C7_FramingRoundTrip ==
  (calls[1].kind = "putReader" /\ wire = <<>>)
    => /\ Len(calls[1].got) = 2
       /\ calls[1].got[2] = calls[1].payload.data

\* C8: the emitter of a call fires at most once, with a resolve or with a
\* reject, and after it has fired the call is passed no further frame and its
\* outcome stays.
C8_SingleFire ==
  [][\A k \in 1..Len(calls') :
       /\ calls'[k].emits <= 1
       /\ (k <= Len(calls) /\ Fired(k))
            => /\ calls'[k].emits = calls[k].emits
               /\ calls'[k].got = calls[k].got
               /\ OutcomeOf(calls'[k]) = OutcomeOf(calls[k])]_vars

\* a reserve was rejected on its status line, its payload step unused, and a
\* later command completed on the frames that followed
C8_Witness ==
  \E k, j \in 1..Len(calls) :
    /\ k < j
    /\ calls[k].kind = "reserve"
    /\ calls[k].emits = 1
    /\ calls[k].outcome = "reject"
    /\ calls[j].emits = 1
    /\ calls[j].outcome = "resolve"

\* C9: once every byte of the response to a command and to the commands
\* before it has been delivered, the call has resolved or rejected.
C9_CompletionLiveness ==
  \A k \in 1..Len(calls) : Delivered(k) => calls[k].outcome # "pending"

\* C10: once the socket has closed and the write callbacks have run, the
\* queue is empty and no call is left pending.
C10_DisconnectRejectsPending ==
  (socket = "closed" /\ writes = <<>>)
    => /\ executions = <<>>
       /\ \A k \in 1..Len(calls) : calls[k].outcome # "pending"

\* C11: a call is in the queue from the step in which its command method is
\* invoked and its bytes are handed to socket.write: every call that has not
\* completed has its execution in the queue.
C11_EnqueueTiming ==
  \A k \in 1..Len(calls) :
    calls[k].outcome = "pending"
      => \E i \in 1..Len(executions) : executions[i].cmd = k

\* the commands with a required job id, tube name or payload, and a call that
\* leaves it out
RequiredKinds ==
  {"put", "use", "reserveJob", "delete", "release", "bury", "touch", "watch",
   "ignore", "pauseTube", "peek", "kickJob", "statsJob", "statsTube"}

MissingRequired(c) == c.kind \in RequiredKinds /\ c.args.a = Void

InQueue(execs, k) == \E i \in 1..Len(execs) : execs[i].cmd = k
AwaitsWrite(ws, k) == \E i \in 1..Len(ws) : ws[i] = k

\* C12: a call that leaves out a required argument fails when its command
\* string is built: it is rejected, no byte is handed to the socket, it never
\* waits for a write and never enters the queue, and the step of the call
\* leaves the queue, the receive buffer and the counter as they were.
C12_UsageErrors ==
  [][\A k \in 1..Len(calls') :
       MissingRequired(calls'[k])
         => /\ calls'[k].outcome = "reject"
            /\ calls'[k].written = <<>>
            /\ ~AwaitsWrite(writes', k)
            /\ ~InQueue(executions', k)
            /\ k > Len(calls) => /\ executions' = executions
                                 /\ writes' = writes
                                 /\ buffer' = buffer
                                 /\ chunkLength' = chunkLength]_vars

\* the error tokens a status line is compared with: the four every command
\* knows, and the ones each command names
UniversalErrors == {OUT_OF_MEMORY, INTERNAL_ERROR, BAD_FORMAT, UNKNOWN_COMMAND}

DeclaredErrors(kind) ==
  CASE kind = "put" -> {BURIED, EXPECTED_CRLF, JOB_TOO_BIG, DRAINING}
    [] kind \in {"reserve", "reserveRaw", "reserveWithTimeout", "statsJob",
                 "stats", "listTubes", "listTubesWatched"} ->
         {DEADLINE_SOON, TIMED_OUT}
    [] kind = "reserveJob" -> {DEADLINE_SOON, TIMED_OUT, NOT_FOUND}
    [] kind = "statsTube" -> {NOT_FOUND, DEADLINE_SOON, TIMED_OUT}
    [] kind = "release" -> {BURIED, NOT_FOUND}
    [] kind = "ignore" -> {NOT_IGNORED}
    [] kind \in {"delete", "bury", "touch", "pauseTube", "peek", "peekReady",
                 "peekDelayed", "peekBuried", "kickJob", "listTubeUsed"} ->
         {NOT_FOUND}
    [] OTHER -> {}

IsErrorLine(kind, line) ==
  \E t \in UniversalErrors \cup DeclaredErrors(kind) : StartsWith(line, t)

\* the token the status line of a command's success starts with
SuccessToken(kind) ==
  CASE kind = "put" -> INSERTED
    [] kind \in {"use", "listTubeUsed"} -> USING
    [] kind \in {"reserve", "reserveRaw", "reserveWithTimeout", "reserveJob"} -> RESERVED
    [] kind = "delete" -> DELETED
    [] kind = "release" -> RELEASED
    [] kind = "bury" -> BURIED
    [] kind = "touch" -> TOUCHED
    [] kind \in {"watch", "ignore"} -> WATCHING
    [] kind = "pauseTube" -> PAUSED
    [] kind \in {"peek", "peekReady", "peekDelayed", "peekBuried"} -> FOUND
    [] kind \in {"kick", "kickJob"} -> KICKED
    [] OTHER -> OK

ProtocolError(line) == [type |-> "Error", message |-> line]

\* C13: a command whose status line starts with a universal error token or
\* with an error token the command names is rejected with an Error whose
\* message is that line and leaves the queue, and a put and a delete called
\* after it resolve with their own results.
C13_ProtocolErrors ==
  \A k \in 1..Len(calls) :
    (Delivered(k) /\ IsErrorLine(calls[k].kind, calls[k].resp.line))
      => /\ calls[k].outcome = "reject"
         /\ calls[k].value = ProtocolError(calls[k].resp.line)
         /\ calls[k].emits = 1
         /\ ~InQueue(executions, k)
         /\ (/\ k + 2 <= Len(calls)
             /\ calls[k + 1].kind = "put"
             /\ calls[k + 2].kind = "delete"
             /\ Delivered(k + 2))
              => /\ OutcomeOf(calls[k + 1]) =
                      [outcome |-> "resolve", value |-> Num(JobsBefore(k + 1) + 1)]
                 /\ OutcomeOf(calls[k + 2]) = [outcome |-> "resolve", value |-> Void]

\* a delete answered NOT_FOUND was rejected with that message, and the put and
\* the delete after it have resolved
C13_Witness ==
  /\ Len(calls) = 3
  /\ calls[1].kind = "delete"
  /\ OutcomeOf(calls[1]) = [outcome |-> "reject", value |-> ProtocolError(NOT_FOUND)]
  /\ calls[2].kind = "put" /\ calls[2].outcome = "resolve"
  /\ calls[3].kind = "delete" /\ calls[3].outcome = "resolve"

\* the commands whose documentation lists NOT_FOUND among the errors thrown
NotFoundDocumented ==
  {"reserveJob", "delete", "release", "bury", "touch", "pauseTube", "peek",
   "peekReady", "peekDelayed", "peekBuried", "kickJob", "statsJob", "statsTube"}

\* C14: a command documented to throw NOT_FOUND whose response is the status
\* line NOT_FOUND is rejected with an Error whose message is NOT_FOUND.
C14_DocumentedNotFound ==
  \A k \in 1..Len(calls) :
    (/\ calls[k].kind \in NotFoundDocumented
     /\ Delivered(k)
     /\ calls[k].resp = OneLine(NOT_FOUND))
      => OutcomeOf(calls[k]) = [outcome |-> "reject", value |-> ProtocolError(NOT_FOUND)]

\* C15: a command whose status line starts neither with an error token it
\* knows nor with the token of its success is rejected with an
\* InvalidResponseError carrying the line, exactly once, and leaves the queue.
C15_UnexpectedResponses ==
  \A k \in 1..Len(calls) :
    (/\ Delivered(k)
     /\ ~IsErrorLine(calls[k].kind, calls[k].resp.line)
     /\ ~StartsWith(calls[k].resp.line, SuccessToken(calls[k].kind)))
      => /\ calls[k].outcome = "reject"
         /\ calls[k].value = [type |-> "InvalidResponseError",
                              response |-> calls[k].resp.line]
         /\ calls[k].emits = 1
         /\ ~InQueue(executions, k)

\* a delete answered INSERTED 1 was rejected with the line
C15_Witness ==
  \E k \in 1..Len(calls) :
    /\ calls[k].kind = "delete"
    /\ calls[k].resp = OneLine(INSERTED \o <<SP, "1">>)
    /\ calls[k].outcome = "reject"
    /\ calls[k].value.type = "InvalidResponseError"

\* the session put, reserve, delete, each call made when the one before it
\* has completed, answered INSERTED 1, RESERVED 1 5 with hello, DELETED
Scenario(n) ==
  /\ Len(calls) >= n
  /\ n >= 1 => calls[1].kind = "put"
               /\ calls[1].resp = OneLine(INSERTED \o <<SP, "1">>)
  /\ n >= 2 => calls[2].kind = "reserve"
               /\ calls[2].resp = WithPayload(RESERVED \o <<SP, "1", SP, "5">>, hello)
  /\ n >= 3 => calls[3].kind = "delete" /\ calls[3].resp = OneLine(DELETED)

\* C16: in that session the put resolves with 1, the reserve with job 1 and
\* the payload hello, the delete with nothing, and after the three, before
\* any further call, the queue, the message list and the receive buffer are
\* empty and the counter is 0.
C16_Scenario ==
  /\ (Scenario(1) /\ Delivered(1))
       => OutcomeOf(calls[1]) = [outcome |-> "resolve", value |-> Num(1)]
  /\ (Scenario(2) /\ Delivered(2))
       => OutcomeOf(calls[2]) = [outcome |-> "resolve", value |-> Job(1, hello)]
  /\ (Scenario(3) /\ Delivered(3))
       => /\ OutcomeOf(calls[3]) = [outcome |-> "resolve", value |-> Void]
          /\ Len(calls) = 3 => /\ executions = <<>>
                               /\ messages = <<>>
                               /\ buffer = <<>>
                               /\ chunkLength = 0

\* the three commands of the session have completed
C16_Witness ==
  /\ Scenario(3)
  /\ Delivered(3)
  /\ \A k \in 1..3 : calls[k].outcome = "resolve"

\* the command line of the bytes a call has written, cut into its fields, and
\* the body between the command line and the last delimiter
CommandLine(w) ==
  LET i == findIndex(w, DELIMITER)
  IN  IF i = -1 THEN w ELSE Slice(w, 0, i)

Fields(w) == split(CommandLine(w))

Body(w) == Slice(w, Len(CommandLine(w)) + Len(DELIMITER), Len(w) - Len(DELIMITER))

IsNumber(str) == str # <<>> /\ \A i \in 1..Len(str) : IsDigit(str[i])

\* a call of put that has handed bytes to the socket
PutWritten(c) == c.kind = "put" /\ c.written # <<>>

\* C17: the bytes of a put are the line put, three numbers and L, a
\* delimiter, the body and a delimiter, where L is the number of bytes of the
\* body; the body of a string payload is its UTF-8 encoding; and put("hello")
\* without options writes put 0 0 60 5\r\nhello\r\n.
C17_PutWireFormat ==
  \A k \in 1..Len(calls) :
    PutWritten(calls[k])
      => LET w == calls[k].written
             payload == calls[k].args.a
         IN  /\ findIndex(w, DELIMITER) > -1
             /\ Len(Fields(w)) = 5
             /\ Fields(w)[1] = <<"p","u","t">>
             /\ \A j \in 2..5 : IsNumber(Fields(w)[j])
             /\ parseInt(Fields(w)[5]) = Len(Body(w))
             /\ Slice(w, Len(w) - Len(DELIMITER), Len(w)) = DELIMITER
             /\ Len(w) = Len(CommandLine(w)) + Len(Body(w)) + 2 * Len(DELIMITER)
             /\ payload.type = "string" => TextDecode(Body(w)) = payload.data
             /\ (payload = Str(hello) /\ calls[k].args.b = NoOpts)
                  => w = <<"p","u","t",SP,"0",SP,"0",SP,"6","0",SP,"5",CR,LF,"h","e","l","l","o",CR,LF>>

\* a put of a string with a two-byte character: two characters, three bytes
C17_Witness ==
  \E k \in 1..Len(calls) :
    /\ PutWritten(calls[k])
    /\ calls[k].args.a = Str(<<"a", EAcute>>)
    /\ Fields(calls[k].written)[5] = <<"3">>

\* C18: a put of a Uint8Array writes the bytes of the array as the body, and
\* the length field is the length of the array.
C18_ByteArrayPayloads ==
  \A k \in 1..Len(calls) :
    (PutWritten(calls[k]) /\ calls[k].args.a.type = "bytes")
      => /\ Body(calls[k].written) = calls[k].args.a.data
         /\ parseInt(Fields(calls[k].written)[5]) = Len(calls[k].args.a.data)

\* the JSON text of the objects given to put
JSONText(payload) ==
  IF payload.entries[1].key = <<"k">>
  THEN <<"{", "\"", "k", "\"", ":", "\"", EAcute, "\"", "}">>
  ELSE <<"{", "\"", "f", "o", "o", "\"", ":", "\"", "b", "a", "r", "\"", "}">>

\* C19: a put of a plain object writes the UTF-8 bytes of its JSON text as the
\* body, the length field counts those bytes, and the payload step of a
\* reserve given that body returns the JSON text.
C19_ObjectPayloads ==
  \A k \in 1..Len(calls) :
    (calls[k].kind = "put" /\ calls[k].args.a.type = "object")
      => LET w == calls[k].written
             json == JSONText(calls[k].args.a)
         IN  /\ w # <<>>
             /\ TextDecode(Body(w)) = json
             /\ \A i \in 1..Len(Body(w)) : Body(w)[i] # EAcute
             /\ parseInt(Fields(w)[5]) = Len(Body(w))
             /\ Invoke("reservePayload", Body(w), 0, 1).value = Job(1, json)

\* a put of {k: "\u00e9"}: nine characters of JSON, ten bytes
C19_Witness ==
  \E k \in 1..Len(calls) :
    /\ PutWritten(calls[k])
    /\ calls[k].args.a.type = "object"
    /\ calls[k].args.a.entries[1].key = <<"k">>
    /\ Fields(calls[k].written)[5] = <<"1", "0">>

\* the value of an option: the one the caller gave, the default without one
Given(opts, name, default) == IF name \in DOMAIN opts THEN opts[name] ELSE default

\* C20: the command lines of put, release, bury and pauseTube carry the
\* priority, delay and ttr the caller gave, and 0, 0 and 60 for the ones the
\* caller left out.
C20_NumericDefaults ==
  \A k \in 1..Len(calls) :
    calls[k].written # <<>>
      => LET f == Fields(calls[k].written)
             a == calls[k].args
         IN  /\ calls[k].kind = "put"
                  => /\ parseInt(f[2]) = Given(a.b, "priority", 0)
                     /\ parseInt(f[3]) = Given(a.b, "delay", 0)
                     /\ parseInt(f[4]) = Given(a.b, "ttr", 60)
             /\ calls[k].kind = "release"
                  => /\ parseInt(f[3]) = Given(a.b, "priority", 0)
                     /\ parseInt(f[4]) = Given(a.b, "delay", 0)
             /\ calls[k].kind = "bury"
                  => parseInt(f[3]) = (IF a.b = Void THEN 0 ELSE a.b.n)
             /\ calls[k].kind = "pauseTube"
                  => parseInt(f[3]) = Given(a.b, "delay", 0)

\* the last bytes of what a call has written
EndsWithDelimiter(w) ==
  Len(w) >= Len(DELIMITER) /\ Slice(w, Len(w) - Len(DELIMITER), Len(w)) = DELIMITER

\* C21: the bytes a command method writes are one command line that ends
\* with the delimiter, and for put the command line, the delimiter, the body
\* of the declared length and a second delimiter.
C21_CommandTermination ==
  \A k \in 1..Len(calls) :
    calls[k].written # <<>>
      => LET w == calls[k].written
         IN  /\ EndsWithDelimiter(w)
             /\ calls[k].kind # "put" => findIndex(w, DELIMITER) = Len(w) - Len(DELIMITER)
             /\ calls[k].kind = "put"
                  => /\ findIndex(w, DELIMITER) > -1
                     /\ parseInt(Fields(w)[5]) = Len(Body(w))

\* the tokens of a list
Range(q) == { q[i] : i \in 1..Len(q) }

\* the outcome the classification of a line is to have
Classified(line, extra) ==
  IF \E t \in UniversalErrors \cup Range(extra) : IsPrefix(t, line)
  THEN [threw |-> TRUE, err |-> ProtocolError(line)]
  ELSE [threw |-> FALSE, ascii |-> line]

\* C22: validate throws an Error carrying the line exactly when the line
\* starts with one of the four universal error tokens or with a token of the
\* list it is given, and otherwise returns the line; every classification of
\* the same line gives the same outcome, and the client's buffer, counter,
\* message list and queue are as they were.
C22_StatusClassification ==
  /\ \A i \in 1..Len(calls[1].results) :
       calls[1].results[i] = Classified(TextDecode(calls[1].line), calls[1].extra)
  /\ (\A j \in 1..Len(calls[1].line) : calls[1].line[j] \notin {"xC3", "xA9"})
       => TextDecode(calls[1].line) = calls[1].line
  /\ buffer = <<>>
  /\ chunkLength = 0
  /\ messages = <<>>
  /\ executions = <<>>

\* BURIED 1 was classified twice with the list of put, and threw both times;
\* so the same line with the list of delete was returned
C22_Witness ==
  /\ calls[1].line = BURIED \o <<SP, "1">>
  /\ calls[1].extra = <<BURIED, EXPECTED_CRLF, JOB_TOO_BIG, DRAINING>>
  /\ Len(calls[1].results) = 2
  /\ calls[1].results[1].threw
  /\ calls[1].results[2] = calls[1].results[1]
  /\ ~validate(calls[1].line, <<NOT_FOUND>>).threw

\* the commands with a status step and a payload step
TwoStepKinds == { kind \in AllKinds : Len(HandlersOf(kind)) = 2 }

\* the number of payload bytes a success status line declares
DeclaredBytes(kind, line) ==
  parseInt(Part(split(line), IF SuccessToken(kind) = OK THEN 1 ELSE 2))

\* C23: a data event whose first line is the success status line of the
\* two-step command at the head of the queue, declaring N bytes, treats the
\* bytes after the line as payload: with fewer than N+2 of them the counter
\* is N, they stay in the buffer and no frame is cut from them, and with N+2
\* the payload step is passed a frame that starts with the first N.
C23_PayloadModeEntry ==
  [][(/\ Len(wire') < Len(wire)
      /\ executions # <<>>
      /\ messages = <<>>
      /\ chunkLength = 0
      /\ findIndex(buffer \o Incoming, DELIMITER) > -1)
       => \A k \in {Head(executions).cmd}, all \in {buffer \o Incoming} :
          \A i \in {findIndex(all, DELIMITER)} :
          \A line \in {Slice(all, 0, i)}, rest \in {Slice(all, i + Len(DELIMITER), Len(all))} :
          \A N \in {DeclaredBytes(calls[k].kind, line)} :
              (/\ calls[k].kind \in TwoStepKinds
               /\ calls[k].got = <<>>
               /\ StartsWith(line, SuccessToken(calls[k].kind))
               /\ N # NaN)
                => IF Len(rest) < N + Len(DELIMITER)
                   THEN /\ calls'[k].got = <<line>>
                        /\ chunkLength' = N
                        /\ buffer' = rest
                        /\ messages' = <<>>
                        /\ calls'[k].outcome = "pending"
                   ELSE /\ Len(calls'[k].got) = 2
                        /\ calls'[k].got[1] = line
                        /\ IsPrefix(SubSeq(rest, 1, N), calls'[k].got[2])]_vars

\* the status line of a reserve declared two bytes, and the two bytes that
\* follow it, a delimiter, are in the buffer and no frame was cut from them
C23_Witness ==
  /\ Len(calls) = 1
  /\ calls[1].kind = "reserve"
  /\ calls[1].got = <<RESERVED \o <<SP, "1", SP, "2">>>>
  /\ chunkLength = 2
  /\ buffer = DELIMITER
  /\ messages = <<>>

\* the status lines that tell a reserve there is no job for it
TimeoutLines == {TIMED_OUT, DEADLINE_SOON}

\* C24: a reserve or reserveWithTimeout whose status step is passed TIMED_OUT
\* or DEADLINE_SOON is rejected with that line, once, leaves the queue, and
\* its payload step is passed no frame; and in the data event whose first
\* line is that status line, the bytes after it are read with the counter at
\* 0: without a complete line they stay in the buffer, and their first line
\* is the first frame passed to the next command of the queue.
C24_StepOneError ==
  [][/\ \A k \in 1..Len(calls') :
          (/\ calls'[k].kind \in ReserveKinds
           /\ calls'[k].got # <<>>
           /\ calls'[k].got[1] \in TimeoutLines)
            => /\ calls'[k].got = <<calls'[k].got[1]>>
               /\ OutcomeOf(calls'[k]) =
                    [outcome |-> "reject", value |-> ProtocolError(calls'[k].got[1])]
               /\ calls'[k].emits = 1
               /\ ~InQueue(executions', k)
     /\ (/\ Len(wire') < Len(wire)
         /\ executions # <<>>
         /\ messages = <<>>
         /\ chunkLength = 0
         /\ findIndex(buffer \o Incoming, DELIMITER) > -1)
          => \A k \in {Head(executions).cmd}, all \in {buffer \o Incoming} :
             \A i \in {findIndex(all, DELIMITER)} :
             \A rest \in {Slice(all, i + Len(DELIMITER), Len(all))} :
             \A i2 \in {findIndex(rest, DELIMITER)} :
                 (/\ calls[k].kind \in ReserveKinds
                  /\ calls[k].got = <<>>
                  /\ Slice(all, 0, i) \in TimeoutLines)
                   => /\ calls'[k].got = <<Slice(all, 0, i)>>
                      /\ executions' # <<>> => Head(executions').cmd # k
                      /\ IF i2 = -1
                         THEN /\ chunkLength' = 0
                              /\ buffer' = rest
                              /\ messages' = <<>>
                              /\ executions' = Tail(executions)
                         ELSE IF Len(executions) >= 2
                         THEN /\ calls[executions[2].cmd].got = <<>>
                              /\ calls'[executions[2].cmd].got # <<>>
                              /\ calls'[executions[2].cmd].got[1] = Slice(rest, 0, i2)
                         ELSE /\ messages' # <<>>
                              /\ messages'[1] = Slice(rest, 0, i2)]_vars

\* a reserveWithTimeout told DEADLINE_SOON was rejected on its status line,
\* and the put called after it has resolved on the line that followed
C24_Witness ==
  /\ Len(calls) >= 2
  /\ calls[1].kind = "reserveWithTimeout"
  /\ calls[1].got = <<DEADLINE_SOON>>
  /\ OutcomeOf(calls[1]) = [outcome |-> "reject", value |-> ProtocolError(DEADLINE_SOON)]
  /\ calls[2].kind = "put"
  /\ OutcomeOf(calls[2]) = [outcome |-> "resolve", value |-> Num(2)]
  /\ chunkLength = 0

\* the error socket.write hands to its callback
WriteError == [type |-> "WriteError"]

\* C25: in the step in which the write of a command fails, the call is
\* rejected with the write error and no execution is pushed for it, and the
\* queue, the frames, the buffer, the counter and every other call are as
\* they were.
C25_WriteFailure ==
  [][\A k \in 1..Len(calls) :
       (calls[k].outcome = "pending" /\ AwaitsWrite(writes, k) /\ ~AwaitsWrite(writes', k)
          /\ calls'[k].outcome = "reject")
         => /\ calls'[k].value = WriteError
            /\ ~InQueue(executions', k)
            /\ executions' = executions
            /\ messages' = messages
            /\ buffer' = buffer
            /\ chunkLength' = chunkLength
            /\ Len(calls') = Len(calls)
            /\ \A j \in 1..Len(calls) : j # k => calls'[j] = calls[j]]_vars

\* the write of a command has failed while an earlier command is in the queue
C25_Witness ==
  \E k \in 1..Len(calls) :
    /\ OutcomeOf(calls[k]) = [outcome |-> "reject", value |-> WriteError]
    /\ ~InQueue(executions, k)
    /\ \E j \in 1..(k - 1) : InQueue(executions, j) /\ calls[j].outcome = "pending"

\* C26: connected is true from the socket's ready event to its close event
\* and false otherwise; a call of quit, close or disconnect made while
\* connected has written quit\r\n and resolves only once the close event has
\* occurred, with connected false; and a call made while not connected has
\* resolved at once and written nothing.
C26_ConnectionState ==
  /\ connected <=> socket \in Alive
  /\ \A k \in 1..Len(calls) :
       /\ (calls[k].wasConnected /\ calls[k].outcome = "resolve")
            => calls[k].closed /\ calls[k].seen = "not connected"
       /\ (calls[k].wasConnected /\ ~calls[k].closed) => calls[k].outcome # "resolve"
       /\ calls[k].wasConnected => calls[k].written = quitCommand
       /\ ~calls[k].wasConnected
            => /\ calls[k].outcome = "resolve"
               /\ calls[k].written = <<>>
               /\ calls[k].seen = "not connected"

\* a call of quit on a connected client has resolved after the close event,
\* and a call on the client after it has resolved at once
C26_Witness ==
  /\ Len(calls) >= 2
  /\ calls[1].wasConnected /\ calls[1].outcome = "resolve" /\ calls[1].closed
  /\ ~calls[2].wasConnected /\ calls[2].outcome = "resolve" /\ ~calls[2].closed
  /\ ~connected

\* a byte sequence with \r\n in it
HasDelimiter(s) == \E i \in 1..(Len(s) - 1) : s[i] = CR /\ s[i + 1] = LF

\* a processChunk call on s with the counter cl finds no frame: no \r\n in
\* line mode, fewer than cl+2 bytes in payload mode
NoFrame(cl, s) ==
  \/ ~(cl > 0) /\ ~HasDelimiter(s)
  \/ cl > 0 /\ Len(s) < cl + Len(DELIMITER)

\* C27: a processChunk call that finds no frame leaves the buffer, the
\* counter, the message list, the queue and every call as they were and
\* passes no frame to a handler step: the call a data event makes on the
\* buffer with its bytes added, and the call made on the bytes after the
\* first frame of an event, with the counter the handler steps have set.
C27_WaitingUnchanged ==
  [][/\ (Len(wire') < Len(wire) /\ NoFrame(chunkLength, buffer \o Incoming))
          => /\ buffer' = buffer \o Incoming
             /\ chunkLength' = chunkLength
             /\ messages' = messages
             /\ executions' = executions
             /\ calls' = calls
     /\ (/\ Len(wire') < Len(wire)
         /\ ~(chunkLength > 0)
         /\ HasDelimiter(buffer \o Incoming))
          => \A all \in {buffer \o Incoming} :
               \A i \in {findIndex(all, DELIMITER)} :
                 \A rest \in {Slice(all, i + Len(DELIMITER), Len(all))} :
                   \A st \in {flushExecutions([ClientState EXCEPT
                                    !.buffer = all,
                                    !.messages = @ \o <<Slice(all, 0, i)>>])} :
                     NoFrame(st.chunkLength, rest)
                       => ClientState' = [st EXCEPT !.buffer = rest]]_vars

\* the counter is 2 and three bytes are buffered, a delimiter among them
C27_Witness ==
  /\ chunkLength = 2
  /\ Len(buffer) = chunkLength + 1
  /\ HasDelimiter(buffer)
  /\ messages = <<>>
  /\ executions # <<>>
  /\ Head(executions).handlers = <<"reservePayload">>

\* the bytes of the responses to the first k commands of a queue
RECURSIVE QueueResponses(_, _)
QueueResponses(execs, k) ==
  IF k = 0 THEN <<>>
  ELSE QueueResponses(execs, k - 1) \o WireBytes(calls[execs[k].cmd].resp)

\* the first k commands of the queue have been passed no frame yet and are
\* answered with one-line responses
OneLineAnswered(execs, k) ==
  \A j \in 1..k :
    /\ calls[execs[j].cmd].got = <<>>
    /\ calls[execs[j].cmd].answered
    /\ ~calls[execs[j].cmd].resp.hasPayload

\* C28: a data event that reaches a client with nothing buffered and carries
\* the whole one-line responses of the first k commands of the queue, and
\* after them bytes without a complete line, completes the k commands in
\* order, each with the outcome of its own line, and leaves exactly those
\* last bytes in the buffer; and whenever the counter is not positive the
\* buffer holds no \r\n.
C28_FullDrain ==
  [][/\ ~(chunkLength' > 0) => ~HasDelimiter(buffer')
     /\ (/\ Len(wire') < Len(wire)
         /\ buffer = <<>>
         /\ messages = <<>>
         /\ chunkLength = 0)
          => \A k \in 1..Len(executions) :
               \A bytes \in {QueueResponses(executions, k)} :
                 (/\ OneLineAnswered(executions, k)
                  /\ IsPrefix(bytes, Incoming)
                  /\ ~HasDelimiter(SubSeq(Incoming, Len(bytes) + 1, Len(Incoming))))
                   => /\ buffer' = SubSeq(Incoming, Len(bytes) + 1, Len(Incoming))
                      /\ chunkLength' = 0
                      /\ messages' = <<>>
                      /\ executions' = SubSeq(executions, k + 1, Len(executions))
                      /\ \A j \in 1..k :
                           LET c == calls'[executions[j].cmd]
                           IN  /\ c.emits = 1
                               /\ c.got = <<c.resp.line>>
                               /\ OutcomeOf(c) = ExpectedOutcome(c.kind, c.resp)
                               /\ j > 1 => calls'[executions[j - 1].cmd].order < c.order]_vars

\* three pipelined commands answered with one line each have completed in
\* order, the second of them rejected
C28_Witness ==
  /\ Len(calls) = 3
  /\ \A k \in 1..3 : ~calls[k].resp.hasPayload /\ calls[k].emits = 1 /\ calls[k].order = k
  /\ calls[2].outcome = "reject"
  /\ calls[3].outcome = "resolve"
  /\ executions = <<>>
  /\ buffer = <<>>

\* the handler steps an execution has consumed
Consumed(e) == Len(HandlersOf(calls[e.cmd].kind)) - Len(e.handlers)

\* C29: every command of the queue behind the head has its whole list of
\* handler steps and has been passed no frame; the head has the steps it has
\* not been passed a frame for; and a head that has consumed its status step
\* stays at the head, as it is, until the step in which it is passed its
\* payload frame and completes.
C29_HeadOnlyDispatch ==
  [][/\ \A i \in 1..Len(executions') :
          LET e == executions'[i]
              hs == HandlersOf(calls'[e.cmd].kind)
          IN  /\ i > 1 => e.handlers = hs /\ calls'[e.cmd].got = <<>>
              /\ e.handlers = SubSeq(hs, Len(calls'[e.cmd].got) + 1, Len(hs))
     /\ (executions # <<>> /\ Consumed(Head(executions)) > 0)
          => \/ executions' # <<>> /\ Head(executions') = Head(executions)
             \/ /\ ~InQueue(executions', Head(executions).cmd)
                /\ Len(calls'[Head(executions).cmd].got) = 2
                /\ calls'[Head(executions).cmd].emits = 1
                /\ Len(wire') < Len(wire)]_vars

\* the head of the queue has consumed its status step and waits for its
\* payload, and a reserve behind it has both its steps
C29_Witness ==
  /\ Len(executions) >= 2
  /\ executions[1].handlers = <<"reservePayload">>
  /\ executions[2].handlers = <<"reserveStatus", "reservePayload">>
  /\ chunkLength > 0

\* call k has been pushed: its write callback has run without an error
Enqueued(cs, ws, k) == ~AwaitsWrite(ws, k) /\ cs[k].value # WriteError

\* the commands of a queue, in its order
QueueCmds(execs) == [i \in 1..Len(execs) |-> execs[i].cmd]

\* the calls that have been pushed and whose emitter has not fired, in
\* submission order
RECURSIVE Outstanding(_, _, _)
Outstanding(cs, ws, k) ==
  IF k > Len(cs) THEN <<>>
  ELSE (IF Enqueued(cs, ws, k) /\ cs[k].emits = 0 THEN <<k>> ELSE <<>>)
         \o Outstanding(cs, ws, k + 1)

\* C30: the queue holds exactly the calls that have been pushed and whose
\* emitter has not fired, in submission order, each with a handler step
\* left; and a call leaves the queue in the very step in which its emitter
\* fires.
C30_QueueMembership ==
  [][/\ QueueCmds(executions') = Outstanding(calls', writes', 1)
     /\ \A i \in 1..Len(executions') : executions'[i].handlers # <<>>
     /\ \A k \in 1..Len(calls) :
          (InQueue(executions, k) /\ ~InQueue(executions', k))
            <=> (calls[k].emits = 0 /\ calls'[k].emits > 0)]_vars

\* two calls are in the queue behind each other while the call before them
\* has completed and left it
C30_Witness ==
  /\ Len(calls) = 3
  /\ calls[1].emits = 1
  /\ QueueCmds(executions) = <<2, 3>>
  /\ calls[2].got # <<>>

RECURSIVE NewGot(_, _, _)
NewGot(cs, cs2, k) ==
  IF k > Len(cs) THEN <<>>
  ELSE SubSeq(cs2[k].got, Len(cs[k].got) + 1, Len(cs2[k].got))
         \o NewGot(cs, cs2, k + 1)

\* bytes is cut into the frames fs, each followed by the two bytes the
\* assembler skips after a frame
RECURSIVE CutInto(_, _)
CutInto(fs, bytes) ==
  IF fs = <<>> THEN bytes = <<>>
  ELSE /\ Len(bytes) >= Len(Head(fs)) + Len(DELIMITER)
       /\ IsPrefix(Head(fs), bytes)
       /\ CutInto(Tail(fs),
                  SubSeq(bytes, Len(Head(fs)) + Len(DELIMITER) + 1, Len(bytes)))

\* C32: the frames a data event cuts from the received bytes are, in the
\* order they are cut, the frames passed to handler steps in that event, each
\* to one step, followed by the frames left in the message list; and when
\* the event cuts one frame while a command is queued the message list is
\* empty after the event.
C32_FrameConsumption ==
  [][Len(wire') < Len(wire)
       => \A all \in {buffer \o Incoming} :
            \A passed \in {NewGot(calls, calls', 1) \o messages'} :
              /\ IsPrefix(messages, passed)
              /\ Len(buffer') <= Len(all)
              /\ buffer' = SubSeq(all, Len(all) - Len(buffer') + 1, Len(all))
              /\ CutInto(SubSeq(passed, Len(messages) + 1, Len(passed)),
                         SubSeq(all, 1, Len(all) - Len(buffer')))
              /\ \A k \in 1..Len(calls) :
                   Len(calls'[k].got) - Len(calls[k].got)
                     <= Len(HandlersOf(calls[k].kind))
              /\ (Len(passed) = Len(messages) + 1 /\ executions # <<>>)
                   => messages' = <<>>]_vars

\* the lines that begin with the token BURIED
BuriedLines == {BURIED, BURIED \o <<SP, "1">>}

\* the first command of a session has been answered with a line that begins
\* with BURIED, and the line has been delivered
AnsweredBuried(kind) ==
  /\ calls # <<>>
  /\ calls[1].kind = kind
  /\ calls[1].answered
  /\ ~calls[1].resp.hasPayload
  /\ calls[1].resp.line \in BuriedLines
  /\ wire = <<>>

\* C33: answered BURIED, bury resolves with no value; answered BURIED or
\* BURIED <id>, put and release reject with an Error whose message is the
\* line; the same line is classified by the command it answers.
C33_TokenMeaning ==
  /\ (AnsweredBuried("bury") /\ calls[1].resp.line = BURIED)
       => OutcomeOf(calls[1]) = [outcome |-> "resolve", value |-> Void]
  /\ \A kind \in {"put", "release"} :
       AnsweredBuried(kind)
         => OutcomeOf(calls[1]) =
              [outcome |-> "reject", value |-> ProtocolError(calls[1].resp.line)]

\* a release answered BURIED 1 has been rejected
C33_Witness ==
  /\ AnsweredBuried("release")
  /\ calls[1].resp.line = BURIED \o <<SP, "1">>
  /\ calls[1].outcome = "reject"
  /\ calls[1].emits = 1

\* C34: every reserve of a pipeline that has resolved holds the id of the
\* RESERVED line sent in answer to it and the payload sent with that line,
\* whatever the reserves before and after it were sent.
C34_PipelinedResults ==
  \A k \in 1..Len(calls) :
    (calls[k].kind \in ReserveKinds /\ calls[k].outcome = "resolve")
      => calls[k].value =
           Job(parseInt(Part(split(TextDecode(calls[k].resp.line)), 1)),
               TextDecode(calls[k].resp.payload))

\* the handler-step list of the method an execution was made by
StepsOf(cs, e) == HandlersOf(cs[e.cmd].kind)

IsSuffix(a, b) ==
  Len(a) <= Len(b) /\ SubSeq(b, Len(b) - Len(a) + 1, Len(b)) = a

\* C35: an execution is pushed with all the steps of its method, however many
\* steps earlier invocations of that method have consumed; the steps taken
\* while the head is dispatched are taken from the head alone, so every
\* execution behind the head still has all its steps.
C35_OwnHandlerSteps ==
  [][/\ Len(executions') > Len(executions)
          => executions'[Len(executions')].handlers
               = StepsOf(calls', executions'[Len(executions')])
     /\ \A i \in 1..Len(executions') :
          IF i = 1
          THEN /\ IsSuffix(executions'[i].handlers, StepsOf(calls', executions'[i]))
               /\ executions'[i].handlers # <<>>
          ELSE executions'[i].handlers = StepsOf(calls', executions'[i])]_vars

\* a reserve that has consumed its status step is at the head, a second
\* reserve with both its steps is behind it, and an earlier reserve has
\* consumed both of its steps
C35_Witness ==
  /\ Len(calls) = 3
  /\ \A k \in 1..3 : calls[k].kind = "reserve"
  /\ Len(calls[1].got) = 2
  /\ Len(executions) = 2
  /\ Len(executions[1].handlers) = 1
  /\ Len(executions[2].handlers) = 2

\* the bytes received in data events so far
RECURSIVE Answers(_)
Answers(k) ==
  IF k > Len(calls) \/ ~calls[k].answered THEN <<>>
  ELSE WireBytes(calls[k].resp) \o Answers(k + 1)

Received == SubSeq(Answers(1), 1, Len(Answers(1)) - Len(wire))

\* the frames emitted so far: those passed to handler steps, then those in
\* the message list
RECURSIVE Framed(_)
Framed(fs) == IF fs = <<>> THEN <<>> ELSE Head(fs) \o DELIMITER \o Framed(Tail(fs))

Suspended == \E k \in 1..Len(calls) : calls[k].task.pending

\* C36: data events may arrive while processChunk is suspended at the await
\* of a handler step; whenever no call is suspended, the frames emitted so
\* far, each followed by its delimiter, and then the buffer, are the bytes
\* received, and no frame holds a delimiter: no byte is lost, no frame is
\* emitted twice, and the frames are those of data events processed one
\* after the other.
C36_InterleavedData ==
  ~Suspended
    => /\ Framed(FramesGot(calls, 1) \o messages) \o buffer = Received
       /\ \A k \in 1..Len(calls) :
            \A j \in 1..Len(calls[k].got) : ~HasDelimiter(calls[k].got[j])

\* call k was made on an earlier connection
Earlier(k) == "earlier" \in DOMAIN calls[k]

\* C37: a call made on an earlier connection is passed no frame after the
\* client has connected again, and the first frame passed to the first call
\* of the new connection is the status line of its own response.
C37_StateAcrossReconnect ==
  /\ \A k \in 1..Len(calls) :
       Earlier(k) => Len(calls[k].got) = calls[k].earlier
  /\ \A k \in 1..Len(calls) :
       (/\ ~Earlier(k)
        /\ k > 1 => Earlier(k - 1)
        /\ calls[k].got # <<>>)
         => calls[k].answered /\ calls[k].got[1] = calls[k].resp.line

\* call k is a reserve answered with a job of 0 bytes, its status step has
\* been passed the status line that declares them, and its response has
\* been delivered
ZeroLength(k) ==
  /\ calls[k].kind = "reserve"
  /\ calls[k].answered
  /\ calls[k].resp.hasPayload
  /\ calls[k].resp.payload = <<>>
  /\ calls[k].got # <<>>
  /\ calls[k].got[1] = calls[k].resp.line
  /\ Delivered(k)

\* C38: a reserve answered RESERVED <id> 0 and an empty payload resolves with
\* that id and the empty payload, on two frames, the status line and the
\* empty frame; when nothing of the next response has been delivered the
\* counter is 0 and the buffer is empty, and the next response, once
\* delivered, reaches the next command from its first byte.
C38_ZeroLengthPayload ==
  \A k \in 1..Len(calls) :
    ZeroLength(k)
      => /\ calls[k].emits = 1
         /\ calls[k].got = <<calls[k].resp.line, <<>>>>
         /\ OutcomeOf(calls[k]) =
              [outcome |-> "resolve",
               value |-> Job(parseInt(Part(split(TextDecode(calls[k].resp.line)), 1)),
                             <<>>)]
         /\ Len(wire) = BytesFrom(k + 1)
              => chunkLength = 0 /\ buffer = <<>> /\ messages = <<>>
         /\ (k < Len(calls) /\ Delivered(k + 1))
              => /\ calls[k + 1].got # <<>>
                 /\ calls[k + 1].got[1] = calls[k + 1].resp.line

\* a reserve behind another command was answered with a job of 0 bytes, and
\* the command after it has been passed its own status line
C38_Witness ==
  /\ Len(calls) = 3
  /\ ZeroLength(2)
  /\ calls[2].value = Job(2, <<>>)
  /\ Delivered(3)
  /\ calls[3].got # <<>>

\* the frames processChunk(head) cuts, one in each call that calls itself
\* again; -1 when a call is made on a buffer that is not shorter than its
\* caller's
RECURSIVE Cuts(_, _)
Cuts(st, head) ==
  LET waiting == /\ st.chunkLength > 0
                 /\ st.chunkLength - Len(head) > -Len(DELIMITER)
      index == IF st.chunkLength > 0
               THEN PayloadIndex(head, st.chunkLength)
               ELSE findIndex(head, DELIMITER)
      st1 == IF st.chunkLength > 0 THEN [st EXCEPT !.chunkLength = 0] ELSE st
  IN  IF waiting \/ ~(index > -1) THEN 0
      ELSE LET tail == Slice(head, index + Len(DELIMITER), Len(head))
           IN  IF ~(Len(tail) < Len(head)) THEN -1
               ELSE CHOOSE r \in
                      { IF n = -1 THEN -1 ELSE n + 1 :
                          n \in {Cuts([flushExecutions(
                                         [st1 EXCEPT !.messages =
                                            @ \o <<Slice(head, 0, index)>>])
                                       EXCEPT !.buffer = tail], tail)} } : TRUE

\* C39: in every data event each recursive call of processChunk is made on a
\* buffer shorter than its caller's; the handler steps invoked in the event
\* are as many as the messages taken from the list, one step for each; and
\* when a frame was cut, flushExecutions has left the message list or the
\* queue empty.
C39_ChunkTermination ==
  [][Len(wire') < Len(wire)
       => \A all \in {buffer \o Incoming} :
            \A n \in {Cuts([ClientState EXCEPT !.buffer = all], all)} :
              /\ n # -1
              /\ n <= Len(all)
              /\ Len(NewGot(calls, calls', 1)) + Len(messages')
                   = Len(messages) + n
              /\ n > 0 => (messages' = <<>> \/ executions' = <<>>)
              /\ Len(buffer') <= Len(all) - n * Len(DELIMITER)]_vars

\* three frames have been cut, the two of a reserve and the one of the
\* command after it, and each has been passed to a handler step
C39_Witness ==
  /\ Len(calls) >= 2
  /\ calls[1].kind = "reserve"
  /\ Len(calls[1].got) = 2
  /\ Len(calls[2].got) = 1
  /\ \A k \in 1..2 : calls[k].emits = 1
  /\ messages = <<>>
  /\ buffer = <<>>
  /\ wire = <<>>

====
